---- MODULE Spec2Model ----
(***************************************************************************)
(* Control plane of the WireGuard/Babel mesh: the node and pair-port       *)
(* registry (three store backends), the task status service and the        *)
(* per-node task-stream session registry.                                  *)
(*                                                                         *)
(*   StoreSpec   - nodes, node status rows and wireguard_connections rows  *)
(*                 under concurrent GetOrCreateWireguardConnection calls.  *)
(*   TaskSpec    - tasks of the task service and of the store under        *)
(*                 CreateTask and UpdateTaskStatus.                        *)
(*   SessionSpec - Register and concurrent SubscribeTasks handlers.        *)
(*   ChanSpec    - CreateTask step by step against the task channel.       *)
(*   DispatchSpec- TriggerConfigUpdate, PushTask and the update goroutines *)
(*                 of HandleCreateNode and UpdateNode.                     *)
(*   PushSpec    - PushTask of one operator against the session registry.  *)
(*   AgentSpec   - the agent of one node against the coordinator;          *)
(*                 AgentFairSpec adds the scheduling of its goroutines.    *)
(*   FleetSpec   - the node API: create, read, list, update, delete and    *)
(*                 the agent's config fetch behind NodeAuth.               *)
(*   RenderSpec  - GenerateNodeConfig for the nodes of a fleet; MeshSpec   *)
(*                 is the same for a fleet of MeshNodes nodes.             *)
(*   StatusSpec  - ReportStatus and SubscribeStatus.                       *)
(***************************************************************************)
EXTENDS Integers, Sequences, FiniteSets, TLC

(***************************************************************************)
(* Bounds of the model and program constants.                              *)
(***************************************************************************)
\* network.base_port of the server configuration
BasePort == 36420
\* largest node identifier the model creates
MaxNodeID == 3
\* number of concurrently running GetOrCreateWireguardConnection callers
NumProcs == 2
\* total number of GetOrCreateWireguardConnection calls in one behaviour
MaxCalls == 2
\* total number of DeleteNode calls in one behaviour
MaxDeletes == 1
\* number of node_status rows the model lets exist at once
MaxStatusRows == 1
\* number of tasks created in one behaviour
MaxTasks == 2
\* number of SubscribeTasks streams opened in one behaviour
MaxStreams == 2
\* number of nodeState objects Register allocates in one behaviour
MaxSessions == 2
\* node ids of the fleet of the session model; SessNodeIds \ SessNodes is unknown
NumSessNodes == 1

\* capacity of TaskService.taskChan
TaskChanCap == 100
\* number of CreateTask calls of the channel model
MaxCreates == 101

\* tasks, streams and nodeState objects of the push model
PushTasks == 1
PushStreams == 1
PushSessions == 1

\* number of connections the agent opens in one behaviour
MaxConns == 3
\* AgentConfig.NodeID of the agent of the agent model
AgentNode == 1

\* nodes HandleCreateNode stores in one behaviour
MaxFleet == 3
\* GenerateNodeConfig calls in one behaviour of the rendering model
MaxFetches == 2
\* UpdateNode calls in one behaviour of the node API model
MaxUpdates == 1
\* GenerateNodeConfig calls in one behaviour of the node API model
FleetFetches == 1
\* ReportStatus calls in one behaviour of the status model
MaxReports == 2
\* SubscribeStatus streams of the status model
MaxSubscribers == 1
\* nodes and GenerateNodeConfig calls of the mesh model
MeshNodes == 2
MeshFetches == 2

NodeIds == 0..MaxNodeID
Procs == 1..NumProcs
TaskIds == 1..MaxTasks
Streams == 1..MaxStreams
ObjIds == 1..MaxSessions
SessNodes == 1..NumSessNodes
SessNodeIds == 1..(NumSessNodes + 1)
Backends == {"memory", "gorm", "sqlite"}
NoPort == 0
NumOps == 3
LockStreams == 1
NumUserConns == 2
MaxUserRequests == 4

Terminal == {"success", "failed", "canceled"}
ReqStatuses == {"pending", "running", "success", "failed", "canceled", "bogus"}
ReqErrors == {"", "exit status 1"}
NoPush == [task |-> 0, obj |-> 0]
NoBcast == [origin |-> 0, skipSelf |-> FALSE, todo |-> {}]
NoTask == [status |-> "none", message |-> "", completed |-> FALSE, node |-> 0]

VARIABLES
    backend,      \* which Store implementation the server was built with
    fkEnforced,   \* SQL backends: does the database enforce FOREIGN KEY clauses
    nodes,        \* ids of the rows of the nodes table / keys of MemoryStore.nodes
    maxNodeID,    \* MemoryStore.maxNodeID / the AUTOINCREMENT cursor
    connections,  \* wireguard_connections rows in insertion order
    status,       \* ids that have a node_status row
    pc,           \* per caller: position inside GetOrCreateWireguardConnection
    arg,          \* per caller: the (NodeID, PeerID) it was called with
    newPort,      \* per caller: the local newPort computed by the max-port scan
    ret,          \* per caller: what the last call returned
    cfg,          \* cfg[a][b]: ListenPort last rendered into a's config for peer b
    lastAlloc,    \* history: the last inserted row and the table before / at the previous commit
    calls,        \* history: number of calls started
    deletes       \* history: number of successful DeleteNode calls

storeVars == <<backend, fkEnforced, nodes, maxNodeID, connections, status,
               pc, arg, newPort, ret, cfg, lastAlloc, calls, deletes>>

VARIABLES
    tasks,        \* TaskService.tasks: task id -> the Task record it points to
    stored        \* the store's persisted copy of each task

taskVars == <<tasks, stored>>

VARIABLES
    sessions,     \* TaskService.nodes: node id -> its nodeState object (0: no entry)
    objStream,    \* nodeState.stream of every nodeState object (0: nil)
    nextObj,      \* number of nodeState objects allocated so far
    nodeMu,       \* holder of TaskService.nodeMu (0: free)
    hpc,          \* per SubscribeTasks handler: its position
    hnode,        \* per SubscribeTasks handler: req.NodeId
    hobj,         \* per SubscribeTasks handler: the nodeState it bound its stream into
    ctxDone,      \* per SubscribeTasks handler: is stream.Context() done
    lastBound     \* history: per node, the stream bound last

sessVars == <<sessions, objStream, nextObj, nodeMu, hpc, hnode, hobj, ctxDone, lastBound>>

VARIABLES
    taskChanLen,  \* number of tasks sitting in TaskService.taskChan
    cpc,          \* position of the CreateTask call in progress
    created,      \* number of tasks CreateTask has put into s.tasks
    saved         \* number of tasks the store has saved

chanVars == <<taskChanLen, cpc, created, saved>>

VARIABLES
    sent,         \* per stream: the tasks written to it with Send, in order
    push,         \* the PushTask call in progress: its task and the nodeState it found
    pushResult,   \* per task: how PushTask ended
    bcast,        \* the configuration-update goroutine in progress
    taskOrigin    \* history: the node whose creation or update caused the task

dispVars == <<sent, push, pushResult, bcast, taskOrigin>>

VARIABLES
    apc,          \* position of the agent (Start, handleTaskStream)
    astream,      \* the stream the agent's receive loop reads
    arecv,        \* number of tasks the agent has received from astream
    aconn,        \* generation of Agent.conn (0: not connected)
    hconn,        \* generation of the connection TaskHandler.client was built on
    taskCh,       \* TaskHandler.taskCh
    executing,    \* tasks with a HandleTask goroutine in progress
    finished,     \* tasks whose HandleTask has returned
    reported,     \* tasks whose status report reached the coordinator
    credOk,       \* is the agent's token the token of its node in the store
    authFailed,   \* history: a Register call was answered Unauthenticated
    lateAttempt   \* history: a connect, register or subscribe made after authFailed

agentVars == <<apc, astream, arecv, aconn, hconn, taskCh, executing, finished,
               reported, credOk, authFailed, lateAttempt>>

VARIABLES
    rec,          \* the stored NodeConfig of every node id: name, token, keys, endpoint
    issued,       \* history: the ids the store has given to a node so far
    ncreated,     \* number of nodes HandleCreateNode has stored
    resp,         \* the HTTP response written last
    rendered,     \* per node: the outcome of the last GenerateNodeConfig for it
    fetches,      \* history: number of GenerateNodeConfig calls
    lastUpdate,   \* history: the last UpdateNode call
    updates,      \* history: number of UpdateNode calls
    nodeStatuses, \* StatusService.nodeStatuses: node id -> snapshot
    statusRows,   \* the store's snapshot of every node id
    subscribers,  \* number of streams in StatusService.statusSubscribers
    subSent,      \* number of snapshots sent to dashboard subscribers
    lastReport,   \* history: the last ReportStatus call
    reports       \* history: number of ReportStatus calls

VARIABLES
    regResp,      \* the last Register call: its number, request and status code
    lastSeen,     \* the lastSeen field of every nodeState object
    now           \* the clock time.Now() reads

VARIABLES
    users,        \* MemoryStore.users: the user records, as [id, username]
    usernames,    \* MemoryStore.usernames: the names that map to a user id
    lastUserID,   \* MemoryStore.lastUserID
    upc,          \* position of every HandleRegister request in progress
    uname,        \* its req.Username
    ucode,        \* the HTTP status of the last response on the connection
    uregs         \* history: number of POST /auth/register requests

VARIABLES
    spc,          \* position of every SubscribeStatus handler
    inList,       \* the streams in StatusService.statusSubscribers
    sctx,         \* per stream: its context is done (the subscriber is gone)
    got           \* history: per stream, the snapshots sent on it, in order

VARIABLES
    mapWriter,    \* the operation that holds s.nodeMu for writing, 0: none
    mapReaders,   \* the operations that hold s.nodeMu for reading
    streamLock,   \* per nodeState object: the operation holding its streamLock
    opc,          \* position of every operation of the task service
    okind,        \* its kind: register, subscribe, push or broadcast
    onode,        \* the node it is about (broadcast: the node it is visiting)
    oobj,         \* the nodeState object it looked up
    ostream,      \* subscribe: the stream of the call
    sending,      \* the stream on which the operation has a Send in progress
    btodo,        \* broadcast: the nodes of s.nodes still to visit
    lstreams      \* number of streams opened by SubscribeTasks calls

fleetVars == <<rec, issued, ncreated, resp, rendered, fetches, lastUpdate, updates,
               nodeStatuses, statusRows, subscribers, subSent, lastReport, reports>>

\* TaskService.Register as a remote call: the last response, the clock and the
\* lastSeen field of every nodeState
regVars == <<regResp, lastSeen, now>>

\* the user table of the store and the HandleRegister requests
userVars == <<users, usernames, lastUserID, upc, uname, ucode, uregs>>

\* the SubscribeStatus handlers, step by step
subVars == <<spc, inList, sctx, got>>

\* the locks of the task service and the operations that take them
lockVars == <<mapWriter, mapReaders, streamLock, opc, okind, onode, oobj, ostream,
              sending, btodo, lstreams>>

moreVars == <<regVars, userVars, subVars, lockVars>>

vars == <<storeVars, taskVars, sessVars, chanVars, dispVars, agentVars, fleetVars, moreVars>>

(***************************************************************************)
(* Helpers                                                                 *)
(***************************************************************************)
Max(S) == CHOOSE x \in S : \A y \in S : y <= x
Min2(a, b) == IF a < b THEN a ELSE b
Max2(a, b) == IF a < b THEN b ELSE a
Ports(conns) == {conns[i].port : i \in DOMAIN conns}
Row(a, b, p) == [node |-> a, peer |-> b, port |-> p]
\* the unordered pair a row belongs to
PairOf(r) == {r.node, r.peer}
NoArg == [node |-> 0, peer |-> 0]
NoRet == [state |-> "none", port |-> NoPort]
NoAlloc == [port |-> NoPort, before |-> {}, prev |-> {}, after |-> {}]

(***************************************************************************)
(* GetOrCreateWireguardConnection: the lookup.                             *)
(* MemoryStore canonicalises the key to (min, max) and compares it with    *)
(* the stored (NodeID, PeerID); a hit counts only when the copied row has  *)
(* non-zero NodeID and PeerID.  The SQL stores match either order.         *)
(***************************************************************************)
MemoryMatches(conns, a, b) ==
    {i \in DOMAIN conns : /\ conns[i].node = Min2(a, b)
                          /\ conns[i].peer = Max2(a, b)}

SqlMatches(conns, a, b) ==
    {i \in DOMAIN conns : \/ (conns[i].node = a /\ conns[i].peer = b)
                          \/ (conns[i].node = b /\ conns[i].peer = a)}

(***************************************************************************)
(* GetOrCreateWireguardConnection: the new port from the max-port scan.    *)
(***************************************************************************)
MemoryNewPort(conns, basePort) ==
    LET maxPort == Max({basePort} \cup Ports(conns))
    IN  IF maxPort > basePort THEN maxPort + 1 ELSE basePort

SqlNewPort(conns, basePort) ==
    LET maxPort == Max({0} \cup Ports(conns))
    IN  IF maxPort >= basePort THEN maxPort + 1 ELSE basePort

(***************************************************************************)
(* Does the INSERT of a new wireguard_connections row succeed.             *)
(***************************************************************************)
FkOk(a, b) == fkEnforced => (a \in nodes /\ b \in nodes)

SqliteInsertOk(conns, a, b, p) ==
    /\ a # b
    /\ \A i \in DOMAIN conns : ~(conns[i].node = a /\ conns[i].peer = b)
    /\ \A i \in DOMAIN conns : conns[i].port # p
    /\ FkOk(a, b)

GormInsertOk(conns, a, b, p) == FkOk(a, b)

(***************************************************************************)
(* Initial state: an empty store of one of the three backends.             *)
(***************************************************************************)
StoreInit ==
    /\ backend \in Backends
    /\ fkEnforced \in (IF backend = "memory" THEN {FALSE} ELSE BOOLEAN)
    /\ nodes = {}
    /\ maxNodeID = 0
    /\ connections = <<>>
    /\ status = {}
    /\ pc = [p \in Procs |-> "idle"]
    /\ arg = [p \in Procs |-> NoArg]
    /\ newPort = [p \in Procs |-> NoPort]
    /\ ret = [p \in Procs |-> NoRet]
    /\ cfg = [a \in NodeIds |-> [b \in NodeIds |-> NoPort]]
    /\ lastAlloc = NoAlloc
    /\ calls = 0
    /\ deletes = 0

\* no task exists (the task service is not part of the specification at hand)
TaskIdle ==
    /\ tasks = [t \in TaskIds |-> NoTask]
    /\ stored = [t \in TaskIds |-> NoTask]

\* no session exists (the session registry is not part of the specification at hand)
SessIdle ==
    /\ sessions = [n \in SessNodeIds |-> 0]
    /\ objStream = [o \in ObjIds |-> 0]
    /\ nextObj = 0
    /\ nodeMu = 0
    /\ hpc = [h \in Streams |-> "idle"]
    /\ hnode = [h \in Streams |-> 0]
    /\ hobj = [h \in Streams |-> 0]
    /\ ctxDone = [h \in Streams |-> FALSE]
    /\ lastBound = [n \in SessNodeIds |-> 0]

\* NewTaskService: the task channel is empty
ChanIdle ==
    /\ taskChanLen = 0
    /\ cpc = "idle"
    /\ created = 0
    /\ saved = 0

\* nothing was pushed and no configuration update is in progress
DispIdle ==
    /\ sent = [h \in Streams |-> <<>>]
    /\ push = NoPush
    /\ pushResult = [t \in TaskIds |-> "none"]
    /\ bcast = NoBcast
    /\ taskOrigin = [t \in TaskIds |-> 0]

\* the agent process has not been started
AgentIdle ==
    /\ apc = "off"
    /\ astream = 0
    /\ arecv = 0
    /\ aconn = 0
    /\ hconn = 0
    /\ taskCh = <<>>
    /\ executing = {}
    /\ finished = {}
    /\ reported = {}
    /\ credOk = TRUE
    /\ authFailed = FALSE
    /\ lateAttempt = FALSE

(***************************************************************************)
(* Values of the fleet model.  A token or key is the tag of its kind and   *)
(* the number of the creation that generated it (crypto/rand output is     *)
(* taken to be unique); the empty tuple is Go's empty string.              *)
(***************************************************************************)
Names == {"a", "b"}
Hosts == {"1.2.3.4", "fd00::1"}
NoToken == <<>>
NoKey == <<>>
Token(k) == <<"token", k>>
PublicKeyOf(k) == <<"public", k>>
PrivateKeyOf(k) == <<"private", k>>
Tokens == {NoToken} \cup {Token(k) : k \in 1..MaxFleet}
\* the Endpoints field is held as its one element; this is the empty list "[]"
NoEndpoints == "[]"
NoRec == [name |-> "", token |-> NoToken, publicKey |-> NoKey,
          privateKey |-> NoKey, endpoint |-> ""]
NoCaller == [kind |-> "none", id |-> 0]
NoResp == [route |-> "none", code |-> 0, caller |-> NoCaller, target |-> 0,
           found |-> FALSE, tokens |-> {}]
NoRender == [code |-> 0, fleet |-> [m \in {} |-> NoRec], table |-> <<>>,
             wg |-> {}, babel |-> <<>>]
NoUpdate == [node |-> 0, token |-> NoToken, ok |-> FALSE]
NoSnap == [from |-> 0, node |-> 0, seq |-> 0]
NoReport == [node |-> 0, payload |-> 0, ok |-> FALSE]

\* no node was created through the API and nothing was fetched or reported
FleetIdle ==
    /\ rec = [n \in NodeIds |-> NoRec]
    /\ issued = {}
    /\ ncreated = 0
    /\ resp = NoResp
    /\ rendered = [n \in NodeIds |-> NoRender]
    /\ fetches = 0
    /\ lastUpdate = NoUpdate
    /\ updates = 0
    /\ nodeStatuses = [n \in NodeIds |-> NoSnap]
    /\ statusRows = [n \in NodeIds |-> NoSnap]
    /\ subscribers = 0
    /\ subSent = 0
    /\ lastReport = NoReport
    /\ reports = 0

NoRegister == [seq |-> 0, node |-> 0, token |-> NoToken, code |-> "none"]

\* no Register call was made
RegIdle ==
    /\ regResp = NoRegister
    /\ lastSeen = [o \in ObjIds |-> 0]
    /\ now = 0

Ops == 1..NumOps

\* no operation of the task service is in progress, every lock is free
LockIdle ==
    /\ mapWriter = 0
    /\ mapReaders = {}
    /\ streamLock = [o \in ObjIds |-> 0]
    /\ opc = [p \in Ops |-> "idle"]
    /\ okind = [p \in Ops |-> "none"]
    /\ onode = [p \in Ops |-> 0]
    /\ oobj = [p \in Ops |-> 0]
    /\ ostream = [p \in Ops |-> 0]
    /\ sending = [p \in Ops |-> 0]
    /\ btodo = [p \in Ops |-> {}]
    /\ lstreams = 0

SubStreams == 1..MaxSubscribers

\* no dashboard has subscribed
SubIdle ==
    /\ spc = [d \in SubStreams |-> "idle"]
    /\ inList = {}
    /\ sctx = [d \in SubStreams |-> FALSE]
    /\ got = [d \in SubStreams |-> <<>>]

UserConns == 1..NumUserConns
Usernames == {"alice", "bob"}

\* NewMemoryStore: no user exists; no registration is in progress
UserIdle ==
    /\ users = {}
    /\ usernames = {}
    /\ lastUserID = 0
    /\ upc = [c \in UserConns |-> "idle"]
    /\ uname = [c \in UserConns |-> ""]
    /\ ucode = [c \in UserConns |-> 0]
    /\ uregs = 0

(***************************************************************************)
(* CreateNode(node) with node.ID = reqID (0: let the store assign one).    *)
(***************************************************************************)
\* the identifier the store gives the new row
AssignedID(reqID) ==
    CASE backend = "memory" -> IF reqID = 0 THEN maxNodeID + 1 ELSE reqID
      [] backend = "gorm"   -> IF reqID = 0 THEN maxNodeID + 1 ELSE reqID
      [] backend = "sqlite" -> reqID

CreateNode(reqID) ==
    LET id == AssignedID(reqID) IN
    /\ id \in NodeIds
    /\ maxNodeID' = IF backend = "sqlite" THEN maxNodeID ELSE Max2(maxNodeID, id)
    /\ nodes' = IF id \in nodes THEN nodes ELSE nodes \cup {id}
    /\ UNCHANGED <<taskVars, sessVars, chanVars, dispVars, agentVars, fleetVars, moreVars>>
    /\ UNCHANGED <<backend, fkEnforced, connections, status, pc, arg, newPort,
                   ret, cfg, lastAlloc, calls, deletes>>

(***************************************************************************)
(* DeleteNode(nodeID).  MemoryStore removes the key of s.nodes only; the   *)
(* SQL stores delete the nodes row and rely on the schema's ON DELETE      *)
(* CASCADE clauses, which act only when the database enforces them.        *)
(***************************************************************************)
RowsWithout(conns, n) ==
    SelectSeq(conns, LAMBDA r : r.node # n /\ r.peer # n)

ConnectionsAfterDelete(conns, n) ==
    CASE backend = "memory" -> conns
      [] backend = "gorm"   -> IF fkEnforced THEN RowsWithout(conns, n) ELSE conns
      [] backend = "sqlite" -> IF fkEnforced THEN RowsWithout(conns, n) ELSE conns

StatusAfterDelete(st, n) ==
    CASE backend = "memory" -> st
      [] backend = "gorm"   -> st
      [] backend = "sqlite" -> IF fkEnforced THEN st \ {n} ELSE st

DeleteNode(n) ==
    /\ deletes < MaxDeletes
    /\ n \in nodes
    /\ nodes' = nodes \ {n}
    /\ connections' = ConnectionsAfterDelete(connections, n)
    /\ status' = StatusAfterDelete(status, n)
    /\ cfg' = [a \in NodeIds |-> [b \in NodeIds |->
                 IF a = n \/ b = n THEN NoPort ELSE cfg[a][b]]]
    /\ deletes' = deletes + 1
    /\ UNCHANGED <<taskVars, sessVars, chanVars, dispVars, agentVars, fleetVars, moreVars>>
    /\ UNCHANGED <<backend, fkEnforced, maxNodeID, pc, arg, newPort, ret,
                   lastAlloc, calls>>

(***************************************************************************)
(* UpdateNodeStatus(nodeID, status): upsert of the node's status row.      *)
(***************************************************************************)
UpdateNodeStatus(n) ==
    /\ n \notin status
    /\ Cardinality(status) < MaxStatusRows
    /\ (backend = "sqlite" /\ fkEnforced) => n \in nodes
    /\ status' = status \cup {n}
    /\ UNCHANGED <<taskVars, sessVars, chanVars, dispVars, agentVars, fleetVars, moreVars>>
    /\ UNCHANGED <<backend, fkEnforced, nodes, maxNodeID, connections, pc, arg,
                   newPort, ret, cfg, lastAlloc, calls, deletes>>

(***************************************************************************)
(* generateWireGuardConfig of node a reaches peer b of its fleet snapshot  *)
(* and calls GenerateWireguardConnection(a, b, base_port).                 *)
(***************************************************************************)
Call(p, a, b) ==
    /\ pc[p] = "idle"
    /\ calls < MaxCalls
    /\ a \in nodes /\ b \in nodes /\ a # b
    /\ pc' = [pc EXCEPT ![p] = "lookup"]
    /\ arg' = [arg EXCEPT ![p] = [node |-> a, peer |-> b]]
    /\ ret' = [ret EXCEPT ![p] = NoRet]
    /\ newPort' = [newPort EXCEPT ![p] = NoPort]
    /\ calls' = calls + 1
    /\ UNCHANGED <<taskVars, sessVars, chanVars, dispVars, agentVars, fleetVars, moreVars>>
    /\ UNCHANGED <<backend, fkEnforced, nodes, maxNodeID, connections, status,
                   cfg, lastAlloc, deletes>>

\* the call of p returns the row's port, which becomes the ListenPort
Return(p, port) ==
    /\ pc' = [pc EXCEPT ![p] = "idle"]
    /\ ret' = [ret EXCEPT ![p] = [state |-> "ok", port |-> port]]
    /\ newPort' = [newPort EXCEPT ![p] = NoPort]
    /\ cfg' = [cfg EXCEPT ![arg[p].node][arg[p].peer] =
                 IF arg[p].node \in nodes /\ arg[p].peer \in nodes
                 THEN port ELSE NoPort]

\* the call of p returns an error: the rendering fails, no config is emitted
Fail(p) ==
    /\ pc' = [pc EXCEPT ![p] = "idle"]
    /\ ret' = [ret EXCEPT ![p] = [state |-> "error", port |-> NoPort]]
    /\ newPort' = [newPort EXCEPT ![p] = NoPort]
    /\ cfg' = cfg

(***************************************************************************)
(* Step 1 of GetOrCreateWireguardConnection: look the pair up.             *)
(***************************************************************************)
\* rows the lookup can return (the first matching row of a scan whose order
\* is the Go map's or the SQL engine's; gorm's First orders by primary key)
LookupHits(conns, a, b) ==
    CASE backend = "memory" ->
            {i \in MemoryMatches(conns, a, b) :
                conns[i].node # 0 /\ conns[i].peer # 0}
      [] backend = "gorm" ->
            IF SqlMatches(conns, a, b) = {} THEN {}
            ELSE {CHOOSE i \in SqlMatches(conns, a, b) :
                    \A j \in SqlMatches(conns, a, b) : i <= j}
      [] backend = "sqlite" -> SqlMatches(conns, a, b)

\* the SQL stores reject a zero NodeID or PeerID
ValidParams(a, b) == backend = "memory" \/ (a # 0 /\ b # 0)

LookupFound(p) ==
    /\ pc[p] = "lookup"
    /\ ValidParams(arg[p].node, arg[p].peer)
    /\ \E i \in LookupHits(connections, arg[p].node, arg[p].peer) :
          Return(p, connections[i].port)
    /\ UNCHANGED <<taskVars, sessVars, chanVars, dispVars, agentVars, fleetVars, moreVars>>
    /\ UNCHANGED <<backend, fkEnforced, nodes, maxNodeID, connections, status,
                   arg, lastAlloc, calls, deletes>>

LookupInvalid(p) ==
    /\ pc[p] = "lookup"
    /\ ~ValidParams(arg[p].node, arg[p].peer)
    /\ Fail(p)
    /\ UNCHANGED <<taskVars, sessVars, chanVars, dispVars, agentVars, fleetVars, moreVars>>
    /\ UNCHANGED <<backend, fkEnforced, nodes, maxNodeID, connections, status,
                   arg, lastAlloc, calls, deletes>>

LookupMiss(p) ==
    /\ pc[p] = "lookup"
    /\ ValidParams(arg[p].node, arg[p].peer)
    /\ LookupHits(connections, arg[p].node, arg[p].peer) = {}
    /\ pc' = [pc EXCEPT ![p] = "scan"]
    /\ UNCHANGED <<taskVars, sessVars, chanVars, dispVars, agentVars, fleetVars, moreVars>>
    /\ UNCHANGED <<backend, fkEnforced, nodes, maxNodeID, connections, status,
                   arg, newPort, ret, cfg, lastAlloc, calls, deletes>>

(***************************************************************************)
(* Step 2: scan for the largest port and decide the new one.               *)
(***************************************************************************)
NewPortOf(conns, basePort) ==
    IF backend = "memory" THEN MemoryNewPort(conns, basePort)
    ELSE SqlNewPort(conns, basePort)

Scan(p) ==
    /\ pc[p] = "scan"
    /\ newPort' = [newPort EXCEPT ![p] = NewPortOf(connections, BasePort)]
    /\ pc' = [pc EXCEPT ![p] = "insert"]
    /\ UNCHANGED <<taskVars, sessVars, chanVars, dispVars, agentVars, fleetVars, moreVars>>
    /\ UNCHANGED <<backend, fkEnforced, nodes, maxNodeID, connections, status,
                   arg, ret, cfg, lastAlloc, calls, deletes>>

(***************************************************************************)
(* Step 3: insert the row (NodeID, PeerID, newPort) as the caller gave it. *)
(***************************************************************************)
InsertOk(conns, a, b, p) ==
    CASE backend = "memory" -> TRUE
      [] backend = "gorm"   -> GormInsertOk(conns, a, b, p)
      [] backend = "sqlite" -> SqliteInsertOk(conns, a, b, p)

InsertedRow(a, b, port) == Row(a, b, port)

Insert(p) ==
    /\ pc[p] = "insert"
    /\ InsertOk(connections, arg[p].node, arg[p].peer, newPort[p])
    /\ connections' = Append(connections,
                             InsertedRow(arg[p].node, arg[p].peer, newPort[p]))
    /\ lastAlloc' = [port |-> newPort[p],
                     before |-> Ports(connections),
                     prev |-> lastAlloc.after,
                     after |-> Ports(connections')]
    /\ Return(p, newPort[p])
    /\ UNCHANGED <<taskVars, sessVars, chanVars, dispVars, agentVars, fleetVars, moreVars>>
    /\ UNCHANGED <<backend, fkEnforced, nodes, maxNodeID, status, arg,
                   calls, deletes>>

InsertFails(p) ==
    /\ pc[p] = "insert"
    /\ ~InsertOk(connections, arg[p].node, arg[p].peer, newPort[p])
    /\ Fail(p)
    /\ UNCHANGED <<taskVars, sessVars, chanVars, dispVars, agentVars, fleetVars, moreVars>>
    /\ UNCHANGED <<backend, fkEnforced, nodes, maxNodeID, connections, status,
                   arg, lastAlloc, calls, deletes>>

StoreNext ==
    \/ \E reqID \in NodeIds : CreateNode(reqID)
    \/ \E n \in NodeIds : DeleteNode(n)
    \/ \E n \in 1..MaxNodeID : UpdateNodeStatus(n)
    \/ \E p \in Procs, a \in NodeIds, b \in NodeIds : Call(p, a, b)
    \/ \E p \in Procs : LookupFound(p)
    \/ \E p \in Procs : LookupInvalid(p)
    \/ \E p \in Procs : LookupMiss(p)
    \/ \E p \in Procs : Scan(p)
    \/ \E p \in Procs : Insert(p)
    \/ \E p \in Procs : InsertFails(p)

\* the server after construction: empty store, no task, no session, no agent
Init ==
    /\ StoreInit /\ TaskIdle /\ SessIdle /\ ChanIdle /\ DispIdle /\ AgentIdle /\ FleetIdle
    /\ RegIdle /\ UserIdle /\ SubIdle /\ LockIdle

StoreSpec == Init /\ [][StoreNext]_vars

(***************************************************************************)
(* Task service.  s.tasks is the in-memory map of TaskService, stored is    *)
(* the task table of the Store behind it.                                  *)
(***************************************************************************)
\* does a task operation of the Store return nil: MemoryStore always does,
\* SQLiteStore returns "task operations not implemented", the gorm store
\* has no task operations of its own
StoreTaskOk ==
    IF backend = "memory" THEN {TRUE}
    ELSE IF backend = "sqlite" THEN {FALSE}
    ELSE BOOLEAN

TaskExists(t) == tasks[t].status # "none"

\* CreateTask(taskType, nodeID): the task enters s.tasks as pending before the
\* store is asked to save it
CreateTask(n) ==
    /\ taskChanLen < TaskChanCap
    /\ taskChanLen' = taskChanLen + 1
    /\ UNCHANGED <<cpc, created, saved>>
    /\ \E t \in TaskIds :
        /\ ~TaskExists(t)
        /\ \A u \in TaskIds : u < t => TaskExists(u)
        /\ LET task == [status |-> "pending", message |-> "", completed |-> FALSE, node |-> n]
           IN /\ tasks' = [tasks EXCEPT ![t] = task]
              /\ \E ok \in StoreTaskOk :
                    stored' = IF ok THEN [stored EXCEPT ![t] = task] ELSE stored
    /\ UNCHANGED <<storeVars, sessVars, dispVars, agentVars, fleetVars, moreVars>>

\* the task record UpdateTaskStatus leaves in s.tasks
UpdatedTask(task, reqStatus, reqError) ==
    [task EXCEPT !.status = IF reqError # "" THEN "failed" ELSE reqStatus,
                 !.message = IF reqError # "" THEN reqError ELSE task.message,
                 !.completed = TRUE]

\* the effect of UpdateTaskStatus(req) on s.tasks and on the store, for a task
\* of s.tasks
TaskStatusUpdated(t, reqStatus, reqError) ==
    /\ TaskExists(t)
    /\ LET task == UpdatedTask(tasks[t], reqStatus, reqError)
       IN /\ tasks' = [tasks EXCEPT ![t] = task]
          /\ \E ok \in StoreTaskOk :
                stored' = IF ok /\ stored[t].status # "none"
                          THEN [stored EXCEPT ![t] = task]
                          ELSE stored

\* UpdateTaskStatus(req) called by any client (an unknown id returns NotFound
\* and changes nothing)
UpdateTaskStatus(t, reqStatus, reqError) ==
    /\ TaskStatusUpdated(t, reqStatus, reqError)
    /\ UNCHANGED <<storeVars, sessVars, chanVars, dispVars, agentVars, fleetVars, moreVars>>

TaskNext ==
    \/ \E n \in SessNodeIds : CreateTask(n)
    \/ \E t \in TaskIds, st \in ReqStatuses, e \in ReqErrors : UpdateTaskStatus(t, st, e)

TaskSpec == Init /\ [][TaskNext]_vars

(***************************************************************************)
(* TaskService.CreateTask step by step, the tasks counted instead of named: *)
(* nothing in the server receives from taskChan.                           *)
(***************************************************************************)
\* s.tasks[task.ID] = task
CreateTaskBegin ==
    /\ cpc = "idle"
    /\ created < MaxCreates
    /\ created' = created + 1
    /\ cpc' = "send"
    /\ UNCHANGED <<taskChanLen, saved>>
    /\ UNCHANGED <<storeVars, taskVars, sessVars, dispVars, agentVars, fleetVars, moreVars>>

\* s.taskChan <- task
CreateTaskSend ==
    /\ cpc = "send"
    /\ taskChanLen < TaskChanCap
    /\ taskChanLen' = taskChanLen + 1
    /\ cpc' = "save"
    /\ UNCHANGED <<created, saved>>
    /\ UNCHANGED <<storeVars, taskVars, sessVars, dispVars, agentVars, fleetVars, moreVars>>

\* s.store.CreateTask(task); return
CreateTaskSave ==
    /\ cpc = "save"
    /\ \E ok \in StoreTaskOk : saved' = IF ok THEN saved + 1 ELSE saved
    /\ cpc' = "idle"
    /\ UNCHANGED <<taskChanLen, created>>
    /\ UNCHANGED <<storeVars, taskVars, sessVars, dispVars, agentVars, fleetVars, moreVars>>

ChanNext ==
    \/ CreateTaskBegin
    \/ CreateTaskSend
    \/ CreateTaskSave

ChanSpec == Init /\ [][ChanNext]_vars

(***************************************************************************)
(* Session registry of the task service.  sessions[n] is the nodeState     *)
(* object s.nodes[n] points to (0: no entry), objStream[o] the stream      *)
(* field of nodeState o (0: nil).  A SubscribeTasks handler h serves       *)
(* stream h.                                                               *)
(***************************************************************************)
\* NodeAuthenticator.ValidateToken: the node exists and the token is its token
ValidateToken(n, tokenOk) == n \in SessNodes /\ tokenOk

\* Register that keeps the nodeState a node already has
RegisteredKeepingState(n) ==
    /\ nodeMu = 0
    /\ nextObj < MaxSessions
    /\ nextObj' = nextObj + 1
    /\ sessions' = [sessions EXCEPT ![n] = IF sessions[n] = 0 THEN nextObj + 1
                                           ELSE sessions[n]]
    /\ UNCHANGED <<objStream, nodeMu, hpc, hnode, hobj, ctxDone, lastBound>>

\* the state change of a Register call whose credentials were accepted:
\* s.nodes[req.NodeId] is replaced by a fresh nodeState
Registered(n) ==
    /\ nodeMu = 0
    /\ nextObj < MaxSessions
    /\ nextObj' = nextObj + 1
    /\ sessions' = [sessions EXCEPT ![n] = nextObj + 1]
    /\ UNCHANGED <<objStream, nodeMu, hpc, hnode, hobj, ctxDone, lastBound>>

\* Register(req) called by any client
Register(n, tokenOk) ==
    /\ ValidateToken(n, tokenOk)
    /\ Registered(n)
    /\ UNCHANGED <<storeVars, taskVars, chanVars, dispVars, agentVars, fleetVars, moreVars>>

\* the handler of SubscribeTasks(req, stream) starts: the credential check
Subscribed(h, n, tokenOk) ==
    /\ hpc[h] = "idle"
    /\ hnode' = [hnode EXCEPT ![h] = n]
    /\ hpc' = [hpc EXCEPT ![h] = IF ValidateToken(n, tokenOk) THEN "lookup"
                                 ELSE "unauthenticated"]
    /\ UNCHANGED <<sessions, objStream, nextObj, nodeMu, hobj, ctxDone, lastBound>>

\* SubscribeTasks(req, stream) called by any client
SubscribeStart(h, n, tokenOk) ==
    /\ Subscribed(h, n, tokenOk)
    /\ UNCHANGED <<storeVars, taskVars, chanVars, dispVars, agentVars, fleetVars, moreVars>>

\* s.nodeMu.Lock(); node, exists := s.nodes[req.NodeId]
SubscribeLookup(h) ==
    /\ hpc[h] = "lookup"
    /\ nodeMu = 0
    /\ IF sessions[hnode[h]] = 0
       THEN /\ hpc' = [hpc EXCEPT ![h] = "notfound"]
            /\ UNCHANGED <<nodeMu, hobj>>
       ELSE /\ hpc' = [hpc EXCEPT ![h] = "bind"]
            /\ nodeMu' = h
            /\ hobj' = [hobj EXCEPT ![h] = sessions[hnode[h]]]
    /\ UNCHANGED <<sessions, objStream, nextObj, hnode, ctxDone, lastBound>>
    /\ UNCHANGED <<storeVars, taskVars, chanVars, dispVars, agentVars, fleetVars, moreVars>>

\* node.stream = stream; s.nodeMu.Unlock(); then block on stream.Context().Done()
SubscribeBind(h) ==
    /\ hpc[h] = "bind"
    /\ objStream' = [objStream EXCEPT ![hobj[h]] = h]
    /\ nodeMu' = 0
    /\ hpc' = [hpc EXCEPT ![h] = "serving"]
    /\ UNCHANGED <<sessions, nextObj, hnode, hobj, ctxDone>>
    /\ lastBound' = [lastBound EXCEPT ![hnode[h]] = h]
    /\ UNCHANGED <<storeVars, taskVars, chanVars, dispVars, agentVars, fleetVars, moreVars>>

\* the client of stream h disconnects or its context is cancelled; nothing in
\* the server cancels a stream's context
CtxCancel(h) ==
    /\ hpc[h] \in {"lookup", "bind", "serving"}
    /\ ~ctxDone[h]
    /\ ctxDone' = [ctxDone EXCEPT ![h] = TRUE]
    /\ UNCHANGED <<sessions, objStream, nextObj, nodeMu, hpc, hnode, hobj, lastBound>>
    /\ UNCHANGED <<storeVars, taskVars, chanVars, dispVars, agentVars, fleetVars, moreVars>>

\* <-stream.Context().Done() returns; s.nodeMu.Lock(); node, exists := s.nodes[req.NodeId]
SubscribeWake(h) ==
    /\ hpc[h] = "serving"
    /\ ctxDone[h]
    /\ nodeMu = 0
    /\ IF sessions[hnode[h]] = 0
       THEN /\ hpc' = [hpc EXCEPT ![h] = "done"]
            /\ UNCHANGED <<nodeMu, hobj>>
       ELSE /\ hpc' = [hpc EXCEPT ![h] = "unbind"]
            /\ nodeMu' = h
            /\ hobj' = [hobj EXCEPT ![h] = sessions[hnode[h]]]
    /\ UNCHANGED <<sessions, objStream, nextObj, hnode, ctxDone, lastBound>>
    /\ UNCHANGED <<storeVars, taskVars, chanVars, dispVars, agentVars, fleetVars, moreVars>>

\* node.stream = nil; s.nodeMu.Unlock(); return nil
SubscribeUnbind(h) ==
    /\ hpc[h] = "unbind"
    /\ objStream' = [objStream EXCEPT ![hobj[h]] = 0]
    /\ nodeMu' = 0
    /\ hpc' = [hpc EXCEPT ![h] = "done"]
    /\ UNCHANGED <<sessions, nextObj, hnode, hobj, ctxDone, lastBound>>
    /\ UNCHANGED <<storeVars, taskVars, chanVars, dispVars, agentVars, fleetVars, moreVars>>

SessionNext ==
    \/ \E n \in SessNodeIds, tokenOk \in BOOLEAN : Register(n, tokenOk)
    \/ \E h \in Streams, n \in SessNodeIds, tokenOk \in BOOLEAN : SubscribeStart(h, n, tokenOk)
    \/ \E h \in Streams : SubscribeLookup(h)
    \/ \E h \in Streams : SubscribeBind(h)
    \/ \E h \in Streams : CtxCancel(h)
    \/ \E h \in Streams : SubscribeWake(h)
    \/ \E h \in Streams : SubscribeUnbind(h)

SessionInit == Init /\ backend = "memory"

SessionSpec == SessionInit /\ [][SessionNext]_vars

(***************************************************************************)
(* Dispatch of configuration-update tasks: NodeService.TriggerConfigUpdate  *)
(* (CreateTask, then PushTask), the goroutines of HandleCreateNode and      *)
(* UpdateNode that call it for the nodes of the fleet, and the status       *)
(* reports of the agents that received a task.                              *)
(***************************************************************************)
\* the tasks written to stream h
Written(h) == {sent[h][i] : i \in DOMAIN sent[h]}

\* TriggerConfigUpdate(n) up to the node lookup of PushTask: CreateTask(update, n);
\* when the store fails to save the task, TriggerConfigUpdate returns the error
\* and PushTask is not called
TriggerCreate(n, origin) ==
    /\ push = NoPush
    /\ taskChanLen < TaskChanCap
    /\ taskChanLen' = taskChanLen + 1
    /\ \E t \in TaskIds :
        /\ ~TaskExists(t)
        /\ \A u \in TaskIds : u < t => TaskExists(u)
        /\ LET task == [status |-> "pending", message |-> "", completed |-> FALSE, node |-> n]
           IN /\ tasks' = [tasks EXCEPT ![t] = task]
              /\ taskOrigin' = [taskOrigin EXCEPT ![t] = origin]
              /\ \E ok \in StoreTaskOk :
                    /\ stored' = IF ok THEN [stored EXCEPT ![t] = task] ELSE stored
                    /\ push' = IF ok THEN [task |-> t, obj |-> 0] ELSE NoPush
    /\ UNCHANGED <<cpc, created, saved, sent, pushResult>>

\* HandleTriggerConfigUpdate: an operator triggers the update of node n
TriggerConfigUpdate(n) ==
    /\ bcast = NoBcast
    /\ TriggerCreate(n, 0)
    /\ UNCHANGED bcast
    /\ UNCHANGED <<storeVars, sessVars, agentVars, fleetVars, moreVars>>

\* PushTask: s.nodeMu.RLock(); node, exists := s.nodes[task.NodeID]
PushLookup ==
    /\ push.task # 0
    /\ push.obj = 0
    /\ nodeMu = 0
    /\ IF sessions[tasks[push.task].node] = 0
       THEN /\ pushResult' = [pushResult EXCEPT ![push.task] = "nonode"]
            /\ push' = NoPush
       ELSE /\ push' = [push EXCEPT !.obj = sessions[tasks[push.task].node]]
            /\ UNCHANGED pushResult
    /\ UNCHANGED <<sent, bcast, taskOrigin>>
    /\ UNCHANGED <<storeVars, taskVars, sessVars, chanVars, agentVars, fleetVars, moreVars>>

\* PushTask as it would be if a failed push were recorded on the task
PushSendRecordsFailure ==
    /\ push.task # 0
    /\ push.obj # 0
    /\ LET h == objStream[push.obj]
           failure == [tasks EXCEPT ![push.task].status = "failed",
                                    ![push.task].message = "stream not available"]
       IN IF h = 0
          THEN /\ pushResult' = [pushResult EXCEPT ![push.task] = "nostream"]
               /\ tasks' = failure
               /\ UNCHANGED sent
          ELSE IF ctxDone[h]
          THEN /\ pushResult' = [pushResult EXCEPT ![push.task] = "senderr"]
               /\ tasks' = failure
               /\ UNCHANGED sent
          ELSE /\ pushResult' = [pushResult EXCEPT ![push.task] = "sent"]
               /\ sent' = [sent EXCEPT ![h] = Append(@, push.task)]
               /\ UNCHANGED tasks
    /\ push' = NoPush
    /\ UNCHANGED <<stored, bcast, taskOrigin>>
    /\ UNCHANGED <<storeVars, sessVars, chanVars, agentVars, fleetVars, moreVars>>

\* PushTask: under node.streamLock, node.stream == nil returns an error,
\* otherwise node.stream.Send(pbTask); Send fails on a stream whose context is done
PushSend ==
    /\ push.task # 0
    /\ push.obj # 0
    /\ LET h == objStream[push.obj]
       IN IF h = 0
          THEN /\ pushResult' = [pushResult EXCEPT ![push.task] = "nostream"]
               /\ UNCHANGED sent
          ELSE IF ctxDone[h]
          THEN /\ pushResult' = [pushResult EXCEPT ![push.task] = "senderr"]
               /\ UNCHANGED sent
          ELSE /\ pushResult' = [pushResult EXCEPT ![push.task] = "sent"]
               /\ sent' = [sent EXCEPT ![h] = Append(@, push.task)]
    /\ push' = NoPush
    /\ UNCHANGED <<bcast, taskOrigin>>
    /\ UNCHANGED <<storeVars, taskVars, sessVars, chanVars, agentVars, fleetVars, moreVars>>

\* UpdateNode(n, config): the node is updated and a goroutine goes through
\* ListNodes(), triggering the update of every node
UpdateNode(n) ==
    /\ n \in SessNodes
    /\ bcast = NoBcast
    /\ push = NoPush
    /\ bcast' = [origin |-> n, skipSelf |-> FALSE, todo |-> SessNodes]
    /\ UNCHANGED <<sent, push, pushResult, taskOrigin>>
    /\ UNCHANGED <<storeVars, taskVars, sessVars, chanVars, agentVars, fleetVars, moreVars>>

\* HandleCreateNode: node n was created and a goroutine goes through
\* ListNodes(), skipping the new node
HandleCreateNode(n) ==
    /\ n \in SessNodes
    /\ bcast = NoBcast
    /\ push = NoPush
    /\ bcast' = [origin |-> n, skipSelf |-> TRUE, todo |-> SessNodes]
    /\ UNCHANGED <<sent, push, pushResult, taskOrigin>>
    /\ UNCHANGED <<storeVars, taskVars, sessVars, chanVars, agentVars, fleetVars, moreVars>>

\* the rest of the goroutine once node m is taken from the list
BcastAfter(m) ==
    IF bcast.todo = {m} THEN NoBcast ELSE [bcast EXCEPT !.todo = @ \ {m}]

\* one iteration of the goroutine's loop over the nodes: the previous
\* TriggerConfigUpdate has returned
BroadcastStep(m) ==
    /\ m \in bcast.todo
    /\ push = NoPush
    /\ bcast' = BcastAfter(m)
    /\ IF bcast.skipSelf /\ m = bcast.origin
       THEN UNCHANGED <<taskVars, chanVars, sent, push, pushResult, taskOrigin>>
       ELSE TriggerCreate(m, bcast.origin)
    /\ UNCHANGED <<storeVars, sessVars, agentVars, fleetVars, moreVars>>

\* HandleTask on the agent that received task t: handleConfigUpdate reports
\* success, a failure is reported as failed with the error text
AgentReports(t, failed) ==
    /\ \E h \in Streams : t \in Written(h)
    /\ t \notin reported
    /\ reported' = reported \cup {t}
    /\ IF failed
       THEN TaskStatusUpdated(t, "failed", "exit status 1")
       ELSE TaskStatusUpdated(t, "success", "")
    /\ UNCHANGED <<apc, astream, arecv, aconn, hconn, taskCh, executing, finished,
                   credOk, authFailed, lateAttempt>>
    /\ UNCHANGED <<storeVars, sessVars, chanVars, dispVars, fleetVars, moreVars>>

DispatchNext ==
    \/ \E n \in SessNodeIds, tokenOk \in BOOLEAN : Register(n, tokenOk)
    \/ \E h \in Streams, n \in SessNodeIds, tokenOk \in BOOLEAN : SubscribeStart(h, n, tokenOk)
    \/ \E h \in Streams : SubscribeLookup(h)
    \/ \E h \in Streams : SubscribeBind(h)
    \/ \E h \in Streams : CtxCancel(h)
    \/ \E h \in Streams : SubscribeWake(h)
    \/ \E h \in Streams : SubscribeUnbind(h)
    \/ \E n \in SessNodeIds : TriggerConfigUpdate(n)
    \/ PushLookup
    \/ PushSend
    \/ \E n \in SessNodeIds : UpdateNode(n)
    \/ \E n \in SessNodeIds : HandleCreateNode(n)
    \/ \E m \in SessNodeIds : BroadcastStep(m)
    \/ \E t \in TaskIds, failed \in BOOLEAN : AgentReports(t, failed)

\* the dispatch model does not depend on the foreign keys of the node tables
DispatchInit == Init /\ ~fkEnforced

DispatchSpec == DispatchInit /\ [][DispatchNext]_vars

(***************************************************************************)
(* PushTask alone: one operator triggering updates while nodes register,   *)
(* subscribe and lose their streams, and agents report on what they got.   *)
(***************************************************************************)
NumTasks == Cardinality({t \in TaskIds : TaskExists(t)})

PushNext ==
    \/ \E n \in SessNodeIds, tokenOk \in BOOLEAN : nextObj < PushSessions /\ Register(n, tokenOk)
    \/ \E h \in 1..PushStreams, n \in SessNodeIds, tokenOk \in BOOLEAN : SubscribeStart(h, n, tokenOk)
    \/ \E h \in Streams : SubscribeLookup(h)
    \/ \E h \in Streams : SubscribeBind(h)
    \/ \E h \in Streams : CtxCancel(h)
    \/ \E h \in Streams : SubscribeWake(h)
    \/ \E h \in Streams : SubscribeUnbind(h)
    \/ \E n \in SessNodeIds : NumTasks < PushTasks /\ TriggerConfigUpdate(n)
    \/ PushLookup
    \/ PushSend
    \/ \E t \in TaskIds, failed \in BOOLEAN : AgentReports(t, failed)

PushSpec == DispatchInit /\ [][PushNext]_vars

(***************************************************************************)
(* The agent of node AgentNode against the coordinator: Start, the receive *)
(* loop handleTaskStream with its error handling, reconnect, and the task   *)
(* handler.  A stream whose context is done is dead for both ends; each end *)
(* notices in its own time.                                                *)
(***************************************************************************)
\* the stream a new SubscribeTasks call of the agent opens
NextStream == CHOOSE h \in Streams : hpc[h] = "idle" /\ \A g \in Streams : g < h => hpc[g] # "idle"

\* Start: connect(), NewTaskHandler(..., a.client, ...), taskHandler.Start()
AgentStart ==
    /\ apc = "off"
    /\ aconn' = 1
    /\ hconn' = 1
    /\ apc' = "register"
    /\ UNCHANGED <<astream, arecv, taskCh, executing, finished, reported, credOk,
                   authFailed, lateAttempt>>
    /\ UNCHANGED <<storeVars, taskVars, sessVars, chanVars, dispVars, fleetVars, moreVars>>

\* where the agent goes when register() returns an error: Start returns it and
\* main exits; handleTaskStream sleeps and goes round its loop again, where
\* Recv on the dead stream fails again
AfterRegisterError(at) ==
    CASE at = "register" -> "exited"
      [] at = "reregister" -> "reregister"
      [] at = "reconnected" -> "reconnect"

\* register(), called by Start, by handleTaskStream on "node not registered",
\* and by reconnect()
AgentRegister ==
    /\ apc \in {"register", "reregister", "reconnected"}
    /\ lateAttempt' = (lateAttempt \/ authFailed)
    /\ IF ValidateToken(AgentNode, credOk)
       THEN /\ Registered(AgentNode)
            /\ apc' = "subscribe"
            /\ UNCHANGED authFailed
       ELSE /\ authFailed' = TRUE
            /\ apc' = AfterRegisterError(apc)
            /\ UNCHANGED sessVars
    /\ UNCHANGED <<astream, arecv, aconn, hconn, taskCh, executing, finished, reported, credOk>>
    /\ UNCHANGED <<storeVars, taskVars, chanVars, dispVars, fleetVars, moreVars>>

\* subscribeTasks(): a new stream is opened and a new handleTaskStream goroutine
\* reads it; the caller returns
AgentSubscribe ==
    /\ apc = "subscribe"
    /\ \E h \in Streams : hpc[h] = "idle"
    /\ Subscribed(NextStream, AgentNode, credOk)
    /\ astream' = NextStream
    /\ arecv' = 0
    /\ apc' = "recv"
    /\ lateAttempt' = (lateAttempt \/ authFailed)
    /\ UNCHANGED <<aconn, hconn, taskCh, executing, finished, reported, credOk, authFailed>>
    /\ UNCHANGED <<storeVars, taskVars, chanVars, dispVars, fleetVars, moreVars>>

\* handleTaskStream: stream.Recv() returns a task; taskHandler.EnqueueTask(task)
AgentRecv ==
    /\ apc = "recv"
    /\ arecv < Len(sent[astream])
    /\ taskCh' = Append(taskCh, sent[astream][arecv + 1])
    /\ arecv' = arecv + 1
    /\ UNCHANGED <<apc, astream, aconn, hconn, executing, finished, reported, credOk,
                   authFailed, lateAttempt>>
    /\ UNCHANGED <<storeVars, taskVars, sessVars, chanVars, dispVars, fleetVars, moreVars>>

\* handleTaskStream: stream.Recv() returns an error, because the stream is dead
\* or because the coordinator's handler returned; "node not registered" leads to
\* re-register and re-subscribe (it needs a coordinator that lost s.nodes after
\* the agent registered), every other error to reconnect()
AgentRecvError ==
    /\ apc = "recv"
    /\ ctxDone[astream] \/ hpc[astream] \in {"unauthenticated", "notfound", "done"}
    /\ apc' = IF hpc[astream] = "notfound" THEN "reregister" ELSE "reconnect"
    /\ UNCHANGED <<astream, arecv, aconn, hconn, taskCh, executing, finished, reported,
                   credOk, authFailed, lateAttempt>>
    /\ UNCHANGED <<storeVars, taskVars, sessVars, chanVars, dispVars, fleetVars, moreVars>>

\* reconnect(): a.conn.Close(); connect() installs a new a.conn and a.client,
\* the task handler keeps the client it was built with
AgentReconnect ==
    /\ apc = "reconnect"
    /\ aconn < MaxConns
    /\ aconn' = aconn + 1
    /\ apc' = "reconnected"
    /\ lateAttempt' = (lateAttempt \/ authFailed)
    /\ UNCHANGED <<astream, arecv, hconn, taskCh, executing, finished, reported, credOk,
                   authFailed>>
    /\ UNCHANGED <<storeVars, taskVars, sessVars, chanVars, dispVars, fleetVars, moreVars>>

\* processTasksLoop: task := <-h.taskCh; go h.HandleTask(task)
ProcessTask ==
    /\ taskCh # <<>>
    /\ executing' = executing \cup {Head(taskCh)}
    /\ taskCh' = Tail(taskCh)
    /\ UNCHANGED <<apc, astream, arecv, aconn, hconn, finished, reported, credOk,
                   authFailed, lateAttempt>>
    /\ UNCHANGED <<storeVars, taskVars, sessVars, chanVars, dispVars, fleetVars, moreVars>>

\* does an UpdateTaskStatus call of the task handler reach the coordinator:
\* its client's connection must not have been closed by reconnect()
ReportDelivered == hconn = aconn

\* HandleTask(t) runs to its end: the configuration is fetched and written,
\* then updateTaskStatus reports success or failed through h.client; an error
\* of that call is logged only
HandleTask(t, failed) ==
    /\ t \in executing
    /\ executing' = executing \ {t}
    /\ finished' = finished \cup {t}
    /\ IF ReportDelivered
       THEN /\ reported' = reported \cup {t}
            /\ IF failed
               THEN TaskStatusUpdated(t, "failed", "exit status 1")
               ELSE TaskStatusUpdated(t, "success", "")
       ELSE UNCHANGED <<reported, tasks, stored>>
    /\ UNCHANGED <<apc, astream, arecv, aconn, hconn, taskCh, credOk, authFailed, lateAttempt>>
    /\ UNCHANGED <<storeVars, sessVars, chanVars, dispVars, fleetVars, moreVars>>

\* the operator deletes the agent's node or replaces its token: ValidateToken
\* rejects the agent's credentials from now on
CredentialsRevoked ==
    /\ credOk
    /\ apc # "off"
    /\ credOk' = FALSE
    /\ UNCHANGED <<apc, astream, arecv, aconn, hconn, taskCh, executing, finished,
                   reported, authFailed, lateAttempt>>
    /\ UNCHANGED <<storeVars, taskVars, sessVars, chanVars, dispVars, fleetVars, moreVars>>

AgentNext ==
    \/ AgentStart
    \/ AgentRegister
    \/ AgentSubscribe
    \/ AgentRecv
    \/ AgentRecvError
    \/ AgentReconnect
    \/ ProcessTask
    \/ \E t \in TaskIds, failed \in BOOLEAN : HandleTask(t, failed)
    \/ CredentialsRevoked
    \/ \E h \in Streams : SubscribeLookup(h)
    \/ \E h \in Streams : SubscribeBind(h)
    \/ \E h \in Streams : CtxCancel(h)
    \/ \E h \in Streams : SubscribeWake(h)
    \/ \E h \in Streams : SubscribeUnbind(h)
    \/ TriggerConfigUpdate(AgentNode)
    \/ PushLookup
    \/ PushSend

AgentInit == DispatchInit /\ backend = "memory"

AgentSpec == AgentInit /\ [][AgentNext]_vars

\* the scheduler runs every goroutine of the agent and of the coordinator that
\* can take a step; nothing forces a stream to break, the credentials to be
\* revoked or the operator to trigger an update
AgentFairness ==
    /\ WF_vars(AgentStart)
    /\ WF_vars(AgentRegister)
    /\ WF_vars(AgentSubscribe)
    /\ WF_vars(AgentRecv)
    /\ WF_vars(AgentRecvError)
    /\ WF_vars(AgentReconnect)
    /\ WF_vars(ProcessTask)
    /\ WF_vars(\E t \in TaskIds, failed \in BOOLEAN : HandleTask(t, failed))
    /\ WF_vars(\E h \in Streams : SubscribeLookup(h))
    /\ WF_vars(\E h \in Streams : SubscribeBind(h))
    /\ WF_vars(\E h \in Streams : SubscribeWake(h))
    /\ WF_vars(\E h \in Streams : SubscribeUnbind(h))
    /\ WF_vars(PushLookup)
    /\ WF_vars(PushSend)

AgentFairSpec == AgentInit /\ [][AgentNext]_vars /\ AgentFairness

(***************************************************************************)
(* Properties of the pair-port registry (StoreSpec).                       *)
(***************************************************************************)
\* rows of the table that belong to the unordered pair {a, b}
RowsOfPair(a, b) == {i \in DOMAIN connections : PairOf(connections[i]) = {a, b}}

\* C1 - pair-port symmetry: once both a's config for peer b and b's config
\* for peer a have been rendered, the two listen ports are equal and are the
\* port of the one stored binding of the pair {a, b}.
PairPortSymmetry ==
    \A a \in nodes, b \in nodes :
        (a # b /\ cfg[a][b] # NoPort /\ cfg[b][a] # NoPort) =>
            /\ cfg[a][b] = cfg[b][a]
            /\ Cardinality(RowsOfPair(a, b)) = 1
            /\ \A i \in RowsOfPair(a, b) : connections[i].port = cfg[a][b]

\* C2 - pair-port uniqueness: two rows of distinct unordered pairs never
\* carry the same port.
PairPortUniqueness ==
    \A i \in DOMAIN connections, j \in DOMAIN connections :
        PairOf(connections[i]) # PairOf(connections[j]) =>
            connections[i].port # connections[j].port

\* C3 - concurrent first-time allocation: when exactly two calls, made by two
\* callers for distinct pairs of non-zero ids against the empty table, have
\* both returned, both returned a port, the ports differ, both are at least
\* base_port, and the table holds exactly two rows.
ConcurrentFirstAllocation ==
    \A p \in Procs, q \in Procs :
        ( /\ p # q
          /\ calls = 2 /\ deletes = 0
          /\ pc[p] = "idle" /\ pc[q] = "idle"
          /\ ret[p].state # "none" /\ ret[q].state # "none"
          /\ 0 \notin {arg[p].node, arg[p].peer, arg[q].node, arg[q].peer}
          /\ {arg[p].node, arg[p].peer} # {arg[q].node, arg[q].peer} ) =>
            /\ ret[p].state = "ok" /\ ret[q].state = "ok"
            /\ ret[p].port # ret[q].port
            /\ ret[p].port >= BasePort /\ ret[q].port >= BasePort
            /\ Len(connections) = 2

\* C4 - monotone allocation: the port of the row inserted last is strictly
\* greater than every port the table held when the previous allocation
\* committed.
MonotoneAllocation ==
    lastAlloc.port # NoPort => \A q \in lastAlloc.prev : lastAlloc.port > q

\* C5 - allocation result: an allocation into the empty table yields
\* base_port, any other max(base_port, largest port of the table) + 1, so
\* that the k-th row inserted since the empty table has port base_port+k-1.
AllocationResult ==
    /\ lastAlloc.port # NoPort =>
          lastAlloc.port =
              IF lastAlloc.before = {} THEN BasePort
              ELSE Max2(BasePort, Max(lastAlloc.before)) + 1
    /\ deletes = 0 =>
          \A i \in DOMAIN connections : connections[i].port = BasePort + i - 1

\* C6 - one immutable binding per unordered pair: the table never holds two
\* rows for the same unordered pair, and calls for (a, b) and (b, a) that
\* have returned a port returned the same one.
OneBindingPerPair ==
    /\ \A i \in DOMAIN connections, j \in DOMAIN connections :
          PairOf(connections[i]) = PairOf(connections[j]) => i = j
    /\ \A p \in Procs, q \in Procs :
          ( /\ deletes = 0
            /\ pc[p] = "idle" /\ pc[q] = "idle"
            /\ ret[p].state = "ok" /\ ret[q].state = "ok"
            /\ {arg[p].node, arg[p].peer} = {arg[q].node, arg[q].peer} ) =>
              ret[p].port = ret[q].port

\* C7 - delete cascade: the step in which DeleteNode(n) succeeds leaves no
\* wireguard_connections row whose node or peer is n and no status row of n.
DeleteCascade ==
    [][ \A n \in NodeIds :
          (deletes' = deletes + 1 /\ n \in nodes /\ n \notin nodes') =>
              /\ n \notin status'
              /\ \A i \in DOMAIN connections' : n \notin PairOf(connections'[i])
      ]_vars

\* C8 - Task finality: once a task's status is success, failed or canceled, no
\* UpdateTaskStatus call changes its status.
TaskFinality ==
    [][\A t \in TaskIds :
          tasks[t].status \in Terminal => tasks'[t].status = tasks[t].status]_vars

\* C9 - report_status accepts only pending -> running, running -> success and
\* running -> failed; any other requested transition leaves the task's status
\* unchanged, in the service and in the store.
LegalTransition(from, to) ==
    \/ from = "pending" /\ to = "running"
    \/ from = "running" /\ to \in {"success", "failed"}

LegalTransitionsOnly ==
    [][\A t \in TaskIds :
          /\ (TaskExists(t) /\ tasks'[t].status # tasks[t].status)
                => LegalTransition(tasks[t].status, tasks'[t].status)
          /\ (stored[t].status # "none" /\ stored'[t].status # stored[t].status)
                => LegalTransition(stored[t].status, stored'[t].status)]_vars

\* C10 - Session stream exclusivity: when a SubscribeTasks handler has bound its
\* stream to a node, every earlier handler still serving a stream of that node
\* has had its stream released (its context is done, so it terminates).
StreamExclusivity ==
    \A h1 \in Streams, h2 \in Streams :
        ( /\ h1 # h2
          /\ hpc[h1] = "serving"
          /\ hpc[h2] = "serving"
          /\ hnode[h1] = hnode[h2]
          /\ hobj[h1] = hobj[h2]
          /\ objStream[hobj[h2]] = h2 )
        => ctxDone[h1]

\* C11 - Unbind is guarded by identity: a subscription handler that ends clears
\* the bound stream of a nodeState only if the bound stream is the stream that
\* handler serves; a newer binding is left intact.
UnbindGuardedByIdentity ==
    [][\A o \in ObjIds :
          (objStream[o] # 0 /\ objStream'[o] = 0)
              => (hpc[objStream[o]] = "unbind" /\ hpc'[objStream[o]] = "done")]_vars

\* C13 - create_task always completes, however many tasks were created before
\* it: a CreateTask call that has reached its channel send can proceed.
CreateTaskCompletes ==
    cpc = "send" => taskChanLen < TaskChanCap

\* C12 - Stream rebind: after an agent has subscribed a second time, a task
\* pushed to its node is written to the stream bound last, also when the
\* earlier stream's context has been cancelled since, and to no other stream.
RebindDelivery ==
    [][\A h1 \in Streams, h2 \in Streams :
          ( /\ h1 # h2
            /\ push.task # 0 /\ push.obj # 0 /\ push' = NoPush
            /\ hnode[h1] = tasks[push.task].node
            /\ hnode[h2] = tasks[push.task].node
            /\ hobj[h1] # 0
            /\ hpc[h1] \in {"serving", "unbind", "done"}
            /\ lastBound[hnode[h2]] = h2
            /\ hpc[h2] = "serving" /\ ~ctxDone[h2]
            /\ hobj[h2] = sessions[hnode[h2]]
            /\ push.obj = sessions[hnode[h2]] )
          => ( /\ sent'[h2] = Append(sent[h2], push.task)
               /\ sent'[h1] = sent[h1]
               /\ push.task \notin Written(h1) )]_vars

\* C14 - Push to an unreachable node: when PushTask found no session, no bound
\* stream, or the write failed, the task stays persisted as pending with no
\* error recorded, and it is never written to a stream afterwards.
PushFailed(t) == pushResult[t] \in {"nonode", "nostream", "senderr"}

PushFailureLeavesPending ==
    \A t \in TaskIds :
        PushFailed(t)
            => ( /\ tasks[t].status = "pending" /\ tasks[t].message = ""
                 /\ stored[t].status = "pending" /\ stored[t].message = ""
                 /\ \A h \in Streams : t \notin Written(h) )

PushFailureWitness ==
    \E t \in TaskIds : pushResult[t] = "nostream" /\ push = NoPush

\* C15 - Config update broadcast: every configuration-update task delivered to
\* its node is moved by the agent's reports through pending -> running ->
\* success: a task becomes success only from running.
BroadcastLifecycle ==
    [][\A t \in TaskIds :
          (tasks'[t].status = "success" /\ tasks[t].status # "success")
              => tasks[t].status = "running"]_vars

\* C16 - Broadcast fan-out: the tasks a node's creation or update produces are
\* for the other nodes of the fleet, none for the node itself, and no node gets
\* two tasks from one configuration update in progress.
FanOutExcludesSelf ==
    \A t \in TaskIds :
        (TaskExists(t) /\ taskOrigin[t] # 0) => tasks[t].node # taskOrigin[t]

\* C17 - Serial execution on the agent: at no instant are two task executions
\* in progress on the same agent.
SerialExecution ==
    Cardinality(executing) <= 1

\* C18 - Fatal authentication failure: once a Register call of the agent has
\* been answered Unauthenticated, the agent makes no further connect, register
\* or subscribe attempt.
NoAttemptAfterAuthFailure ==
    ~lateAttempt

\* C19 - Recovery after stream loss: with valid credentials the agent ends up
\* with its receive loop on a live stream that is the bound stream of its node:
\* from some point on, whenever the agent is receiving on a live stream, that
\* stream is the one bound to the node.
AgentReceiving == apc = "recv" /\ credOk /\ ~ctxDone[astream]

AgentBound == sessions[AgentNode] # 0 /\ objStream[sessions[AgentNode]] = astream

TerminalStatusReport ==
    \A t \in TaskIds : (t \in executing) ~> (t \in reported)

(***************************************************************************)
(* The node API, the configuration service and the status service.         *)
(* The dashboard routes run behind JWTAuth: their caller is a dashboard    *)
(* user.  The goroutine HandleCreateNode and UpdateNode start is the one   *)
(* of the dispatch model.                                                  *)
(***************************************************************************)
\* the variables of the GetOrCreateWireguardConnection callers
callVars == <<pc, arg, newPort, ret, cfg, lastAlloc, calls, deletes>>
\* the variables of the status service
reportVars == <<nodeStatuses, statusRows, subscribers, subSent, lastReport, reports>>

DashboardUser == [kind |-> "user", id |-> 0]
NodeCaller(id) == [kind |-> "node", id |-> id]

\* ValidateToken: the node is in the store and the token is its stored token
ValidateNodeToken(id, token) == id \in nodes /\ token = rec[id].token

\* the nodes of the response body whose token field is not empty
TokensIn(S) == {n \in S : rec[n].token # NoToken}

\* POST /api/dashboard/nodes: the record is built with ID 0 and given to
\* CreateNode; the response carries the new token
HandleCreateNodeRequest(name, host) ==
    LET id == AssignedID(0)
        k  == ncreated + 1
    IN
    /\ id \in NodeIds
    /\ IF id \notin nodes
       THEN /\ nodes' = nodes \cup {id}
            /\ maxNodeID' = IF backend = "sqlite" THEN maxNodeID
                            ELSE Max2(maxNodeID, id)
            /\ rec' = [rec EXCEPT ![id] =
                         [name |-> name, token |-> Token(k),
                          publicKey |-> PublicKeyOf(k),
                          privateKey |-> PrivateKeyOf(k), endpoint |-> host]]
            /\ issued' = issued \cup {id}
            /\ ncreated' = k
            /\ resp' = [route |-> "create", code |-> 200, caller |-> DashboardUser,
                        target |-> id, found |-> TRUE, tokens |-> {id}]
       ELSE /\ resp' = [route |-> "create", code |-> 500, caller |-> DashboardUser,
                        target |-> id, found |-> TRUE, tokens |-> {}]
            /\ UNCHANGED <<nodes, maxNodeID, rec, issued, ncreated>>
    /\ UNCHANGED <<backend, fkEnforced, connections, status, callVars>>
    /\ UNCHANGED <<rendered, fetches, lastUpdate, updates, reportVars>>
    /\ UNCHANGED <<taskVars, sessVars, chanVars, dispVars, agentVars, moreVars>>

\* GET /api/dashboard/nodes: the stored records are written as they are
HandleListNodes ==
    /\ resp' = [route |-> "list", code |-> 200, caller |-> DashboardUser,
                target |-> 0, found |-> TRUE, tokens |-> TokensIn(nodes)]
    /\ UNCHANGED <<rec, issued, ncreated, rendered, fetches, lastUpdate, updates,
                   reportVars>>
    /\ UNCHANGED <<storeVars, taskVars, sessVars, chanVars, dispVars, agentVars, moreVars>>

\* GET /api/dashboard/nodes/:id: every GetNode error is answered 500
HandleGetNode(target) ==
    /\ resp' = IF target \in nodes
               THEN [route |-> "get", code |-> 200, caller |-> DashboardUser,
                     target |-> target, found |-> TRUE,
                     tokens |-> TokensIn({target})]
               ELSE [route |-> "get", code |-> 500, caller |-> DashboardUser,
                     target |-> target, found |-> FALSE, tokens |-> {}]
    /\ UNCHANGED <<rec, issued, ncreated, rendered, fetches, lastUpdate, updates,
                   reportVars>>
    /\ UNCHANGED <<storeVars, taskVars, sessVars, chanVars, dispVars, agentVars, moreVars>>

\* GET /api/dashboard/status: the node_status rows
HandleGetStatus ==
    /\ resp' = [route |-> "status", code |-> 200, caller |-> DashboardUser,
                target |-> 0, found |-> TRUE, tokens |-> {}]
    /\ UNCHANGED <<rec, issued, ncreated, rendered, fetches, lastUpdate, updates,
                   reportVars>>
    /\ UNCHANGED <<storeVars, taskVars, sessVars, chanVars, dispVars, agentVars, moreVars>>

(***************************************************************************)
(* ListNodes: MemoryStore ranges over a Go map, SQLiteStore orders by id   *)
(* and GormStore reads the table in primary-key order.                     *)
(***************************************************************************)
Perms(S) ==
    {f \in [1..Cardinality(S) -> S] :
        \A i, j \in 1..Cardinality(S) : i # j => f[i] # f[j]}

SortedSeq(S) ==
    CHOOSE f \in Perms(S) : \A i, j \in 1..Cardinality(S) : i < j => f[i] < f[j]

ListNodes == IF backend = "memory" THEN Perms(nodes) ELSE {SortedSeq(nodes)}

(***************************************************************************)
(* GetOrCreateWireguardConnection as one call on the table conns: the      *)
(* lookup, the max-port scan and the insert of the steps above.            *)
(***************************************************************************)
\* the call as it would be if it rewrote the table instead of appending to it
GetOrCreateReplacingTable(conns, a, b) ==
    [ok |-> TRUE, port |-> NewPortOf(conns, BasePort),
     conns |-> <<InsertedRow(a, b, NewPortOf(conns, BasePort))>>]

GetOrCreateWireguardConnection(conns, a, b) ==
    IF ~ValidParams(a, b)
    THEN [ok |-> FALSE, port |-> NoPort, conns |-> conns]
    ELSE IF LookupHits(conns, a, b) # {}
    THEN [ok |-> TRUE,
          port |-> conns[CHOOSE i \in LookupHits(conns, a, b) :
                            \A j \in LookupHits(conns, a, b) : i <= j].port,
          conns |-> conns]
    ELSE IF InsertOk(conns, a, b, NewPortOf(conns, BasePort))
    THEN [ok |-> TRUE, port |-> NewPortOf(conns, BasePort),
          conns |-> Append(conns, InsertedRow(a, b, NewPortOf(conns, BasePort)))]
    ELSE [ok |-> FALSE, port |-> NoPort, conns |-> conns]

(***************************************************************************)
(* generateWireGuardConfig: one template execution per peer of the list,   *)
(* stored under the peer's name.                                           *)
(***************************************************************************)
HasDot(host) == host \in {"1.2.3.4"}
HasColon(host) == host \in {"fd00::1"}

\* Peer.Endpoint as it would be if it named the port after the pair's port
EndpointOfNextPort(host, port) ==
    [host |-> host, bracketed |-> ~HasDot(host) /\ HasColon(host), port |-> port + 1]

\* Peer.Endpoint taken from the first element without a look at the length
EndpointOfFirstElement(host, port) ==
    [host |-> host, bracketed |-> ~HasDot(host) /\ HasColon(host), port |-> port]

\* Peer.Endpoint of a peer whose Endpoints is the empty list or the
\* one-element list HandleCreateNode stored
Endpoint(host, port) ==
    IF host = NoEndpoints THEN [host |-> "unknown", bracketed |-> FALSE, port |-> port]
    ELSE IF HasDot(host) THEN [host |-> host, bracketed |-> FALSE, port |-> port]
    ELSE IF HasColon(host) THEN [host |-> host, bracketed |-> TRUE, port |-> port]
    ELSE [host |-> host, bracketed |-> FALSE, port |-> port]

\* the template data of node n for peer p on the pair's port
PeerConfig(n, p, port) ==
    [name |-> rec[p].name, node |-> n, peer |-> p, listenPort |-> port,
     endpoint |-> Endpoint(rec[p].endpoint, port),
     publicKey |-> rec[p].publicKey, privateKey |-> rec[n].privateKey]

\* configs[key] = value of a Go map held as the set of its entries
MapPut(configs, entry) == {e \in configs : e.name # entry.name} \cup {entry}

RECURSIVE generateWireGuardConfig(_, _, _, _)
generateWireGuardConfig(n, peers, conns, configs) ==
    IF peers = <<>> THEN [ok |-> TRUE, conns |-> conns, configs |-> configs]
    ELSE IF Head(peers) = n
    THEN generateWireGuardConfig(n, Tail(peers), conns, configs)
    ELSE LET wgConn == GetOrCreateWireguardConnection(conns, n, Head(peers)) IN
         IF ~wgConn.ok
         THEN [ok |-> FALSE, conns |-> wgConn.conns, configs |-> {}]
         ELSE generateWireGuardConfig(n, Tail(peers), wgConn.conns,
                  MapPut(configs, PeerConfig(n, Head(peers), wgConn.port)))

\* generateBabeldConfig: the interface entries, one per peer in list order
generateBabeldConfig(n, peers) ==
    LET others == SelectSeq(peers, LAMBDA p : p # n)
    IN  [i \in 1..Len(others) |-> rec[others[i]].name]

\* GenerateNodeConfig(n) with ListNodes returning the list peers
GenerateNodeConfig(n, peers) ==
    IF n \notin nodes
    THEN [ok |-> FALSE, conns |-> connections, wg |-> {}, babel |-> <<>>]
    ELSE LET wgConfig == generateWireGuardConfig(n, peers, connections, {}) IN
         IF ~wgConfig.ok
         THEN [ok |-> FALSE, conns |-> wgConfig.conns, wg |-> {}, babel |-> <<>>]
         ELSE [ok |-> TRUE, conns |-> wgConfig.conns, wg |-> wgConfig.configs,
               babel |-> generateBabeldConfig(n, peers)]

\* the fleet snapshot a rendering reads
Fleet == [m \in nodes |-> rec[m]]

(***************************************************************************)
(* GET /agent/config/:id behind NodeAuth (the group hangs off the router,  *)
(* not off /api).  basic: the request carries Basic credentials, which are *)
(* authId and token; target is the :id of the path.                        *)
(***************************************************************************)
HandleGetConfig(basic, authId, token, target, peers) ==
    IF ~basic \/ ~ValidateNodeToken(authId, token)
    THEN /\ resp' = [route |-> "config", code |-> 401, caller |-> NoCaller,
                     target |-> target, found |-> target \in nodes, tokens |-> {}]
         /\ UNCHANGED <<rec, issued, ncreated, rendered, fetches, lastUpdate,
                        updates, reportVars>>
         /\ UNCHANGED <<storeVars, taskVars, sessVars, chanVars, dispVars, agentVars, moreVars>>
    ELSE LET config == GenerateNodeConfig(target, peers) IN
         /\ connections' = config.conns
         /\ fetches' = fetches + 1
         /\ rendered' = [rendered EXCEPT ![target] =
                           [code |-> IF config.ok THEN 200 ELSE 500,
                            fleet |-> Fleet, table |-> config.conns,
                            wg |-> config.wg, babel |-> config.babel]]
         /\ resp' = [route |-> "config", code |-> IF config.ok THEN 200 ELSE 500,
                     caller |-> NodeCaller(authId), target |-> target,
                     found |-> target \in nodes,
                     tokens |-> IF config.ok THEN TokensIn({target}) ELSE {}]
         /\ UNCHANGED <<backend, fkEnforced, nodes, maxNodeID, status, callVars>>
         /\ UNCHANGED <<rec, issued, ncreated, lastUpdate, updates, reportVars>>
         /\ UNCHANGED <<taskVars, sessVars, chanVars, dispVars, agentVars, moreVars>>

(***************************************************************************)
(* NodeService.UpdateNode(nodeID, config): the line that kept the old      *)
(* token is commented out, so the store gets the caller's record.          *)
(* MemoryStore replaces the record, SQLiteStore sets every column and      *)
(* GormStore's Updates writes the non-zero fields only.                    *)
(***************************************************************************)
StoreUpdateNode(old, config) ==
    CASE backend = "memory" -> config
      [] backend = "sqlite" -> config
      [] backend = "gorm"   ->
            [old EXCEPT !.name = config.name,
                        !.token = IF config.token = NoToken THEN old.token
                                  ELSE config.token]

\* the caller's record: the stored one with a new name and the token field
\* either empty or a token of the caller's choice
NodeServiceUpdateNode(n, name, token) ==
    /\ updates' = updates + 1
    /\ IF n \notin nodes
       THEN /\ lastUpdate' = [node |-> n, token |-> token, ok |-> FALSE]
            /\ rec' = rec
       ELSE /\ lastUpdate' = [node |-> n, token |-> token, ok |-> TRUE]
            /\ rec' = [rec EXCEPT ![n] =
                         StoreUpdateNode(rec[n], [rec[n] EXCEPT !.name = name,
                                                               !.token = token])]
    /\ UNCHANGED <<issued, ncreated, resp, rendered, fetches, reportVars>>
    /\ UNCHANGED <<storeVars, taskVars, sessVars, chanVars, dispVars, agentVars, moreVars>>

\* the tokens a caller can present: none, or one a creation has handed out
KnownTokens == {NoToken} \cup {Token(k) : k \in 1..ncreated}

\* the node API with one GenerateNodeConfig call and one UpdateNode call
FleetNext ==
    \/ \E name \in {"a"}, host \in {"1.2.3.4"} :
          ncreated < MaxFleet /\ HandleCreateNodeRequest(name, host)
    \/ \E n \in NodeIds : DeleteNode(n)
    \/ HandleListNodes
    \/ \E target \in NodeIds : HandleGetNode(target)
    \/ HandleGetStatus
    \/ \E basic \in BOOLEAN, authId \in NodeIds, token \in KnownTokens,
          target \in NodeIds, peers \in ListNodes :
          fetches < FleetFetches /\ HandleGetConfig(basic, authId, token, target, peers)
    \/ \E n \in NodeIds, name \in Names, token \in KnownTokens :
          updates < MaxUpdates /\ NodeServiceUpdateNode(n, name, token)

FleetSpec == Init /\ [][FleetNext]_vars

\* the agents of the fleet fetch their own configurations
RenderNext ==
    \/ \E name \in Names, host \in Hosts :
          ncreated < MaxFleet /\ HandleCreateNodeRequest(name, host)
    \/ \E target \in nodes, peers \in ListNodes :
          /\ fetches < MaxFetches
          /\ HandleGetConfig(TRUE, target, rec[target].token, target, peers)

RenderSpec == Init /\ [][RenderNext]_vars

\* the agents of a fleet of MeshNodes nodes fetch their own configurations
MeshNext ==
    \/ \E name \in Names, host \in Hosts :
          ncreated < MeshNodes /\ HandleCreateNodeRequest(name, host)
    \/ \E target \in nodes, peers \in ListNodes :
          /\ fetches < MeshFetches
          /\ HandleGetConfig(TRUE, target, rec[target].token, target, peers)

MeshSpec == Init /\ [][MeshNext]_vars

(***************************************************************************)
(* Properties of the node API.                                             *)
(***************************************************************************)
\* C21 - Token privacy: a response of an endpoint other than node creation
\* (node read, node list, status read, config fetch) carries the raw token of
\* a node only when the caller is authenticated as that node.
TokenPrivacy ==
    resp.route # "create" =>
        \A n \in resp.tokens : resp.caller = NodeCaller(n)

\* C22 - Agent config fetch authentication: the configuration of node id is
\* returned only to Basic credentials that are id with the token of id; a
\* request with another id or a wrong token is answered 401 with nothing
\* disclosed.
ConfigFetchAuthentication ==
    (resp.route = "config" /\ resp.found /\ resp.caller # NodeCaller(resp.target)) =>
        (resp.code = 401 /\ resp.tokens = {})

\* C23 - Missing target node: a fetch of the configuration of a node id that
\* is not in the store is answered 404, not the 500 of a backend failure,
\* and inserts no pair binding.
MissingNodeIsNotFound ==
    [][(fetches' # fetches /\ ~resp'.found)
         => (resp'.code = 404 /\ connections' = connections)]_vars

\* C28 - update_node preserves the token: an update with a record whose token
\* field is empty leaves the stored token of the node as it was.
UpdatePreservesToken ==
    [][(updates' # updates /\ lastUpdate'.ok /\ lastUpdate'.token = NoToken)
         => rec'[lastUpdate'.node].token = rec[lastUpdate'.node].token]_vars

\* C29 - Node identifiers: the identifier a creation assigns was never the
\* identifier of a node before, whatever creations and deletions preceded.
IdentifiersNeverReused ==
    [][\A id \in nodes' \ nodes : id \notin issued]_vars

(***************************************************************************)
(* Properties of the rendered configurations.                              *)
(***************************************************************************)
\* C24 - Config determinism: two renderings for the same node over the same
\* fleet snapshot and the same pair table give the same per-peer tunnel map
\* and the same routing-daemon config, the order of its interface entries
\* included, whatever order the store lists the nodes in.
ConfigDeterminism ==
    [][\A n \in NodeIds :
         (/\ fetches' # fetches
          /\ rendered[n].code = 200 /\ rendered'[n].code = 200
          /\ rendered'[n].fleet = rendered[n].fleet
          /\ rendered'[n].table = rendered[n].table)
         => (/\ rendered'[n].wg = rendered[n].wg
             /\ rendered'[n].babel = rendered[n].babel)]_vars

\* C26 - Full mesh output: the tunnel map rendered for node n has exactly one
\* entry for every other node of the fleet snapshot and none for n, also when
\* two nodes carry the same display name.
FullMeshOutput ==
    \A n \in NodeIds :
        rendered[n].code = 200 =>
            /\ {e.peer : e \in rendered[n].wg} = (DOMAIN rendered[n].fleet) \ {n}
            /\ Cardinality(rendered[n].wg) = Cardinality(DOMAIN rendered[n].fleet) - 1

StatusUpsertOk(n) == (backend = "sqlite" /\ fkEnforced) => n \in nodes

\* ReportStatus(req): req.NodeId = n and req.Token = token authenticate the
\* report, req.Status.NodeId = payloadNode is the id inside the snapshot.
\* The cache is written under req.NodeId, the snapshot goes to every
\* subscriber and the store is written under req.Status.NodeId; a failing
\* store write is logged only.
ReportStatus(n, token, payloadNode) ==
    LET snap == [from |-> n, node |-> payloadNode, seq |-> reports + 1] IN
    /\ reports' = reports + 1
    /\ IF ~ValidateNodeToken(n, token)
       THEN /\ lastReport' = [node |-> n, payload |-> payloadNode, ok |-> FALSE]
            /\ UNCHANGED <<nodeStatuses, statusRows, subSent, status, got>>
       ELSE /\ lastReport' = [node |-> n, payload |-> payloadNode, ok |-> TRUE]
            /\ nodeStatuses' = [nodeStatuses EXCEPT ![n] = snap]
            /\ subSent' = subSent + subscribers
            /\ got' = [d \in SubStreams |->
                         IF d \in inList
                         THEN Append(got[d], [kind |-> "report", snap |-> snap])
                         ELSE got[d]]
            /\ IF StatusUpsertOk(payloadNode)
               THEN /\ statusRows' = [statusRows EXCEPT ![payloadNode] = snap]
                    /\ status' = status \cup {payloadNode}
               ELSE UNCHANGED <<statusRows, status>>
    /\ UNCHANGED <<backend, fkEnforced, nodes, maxNodeID, connections, callVars>>
    /\ UNCHANGED <<rec, issued, ncreated, resp, rendered, fetches, lastUpdate,
                   updates, subscribers>>
    /\ UNCHANGED <<taskVars, sessVars, chanVars, dispVars, agentVars>>
    /\ UNCHANGED <<regVars, userVars, lockVars, spc, inList, sctx>>

\* SubscribeStatus(req): any non-empty token is accepted; the stream is
\* registered and receives the cached snapshots
SubscribeStatus(tokenEmpty) ==
    /\ IF tokenEmpty
       THEN UNCHANGED <<subscribers, subSent>>
       ELSE /\ subscribers' = subscribers + 1
            /\ subSent' = subSent
                          + Cardinality({n \in NodeIds : nodeStatuses[n] # NoSnap})
    /\ UNCHANGED <<rec, issued, ncreated, resp, rendered, fetches, lastUpdate,
                   updates, nodeStatuses, statusRows, lastReport, reports>>
    /\ UNCHANGED <<storeVars, taskVars, sessVars, chanVars, dispVars, agentVars, moreVars>>

StatusNext ==
    \/ \E name \in {"a"}, host \in {"1.2.3.4"} :
          ncreated < MeshNodes /\ HandleCreateNodeRequest(name, host)
    \/ \E tokenEmpty \in BOOLEAN :
          subscribers < MaxSubscribers /\ SubscribeStatus(tokenEmpty)
    \/ \E n \in NodeIds, token \in KnownTokens, payloadNode \in NodeIds :
          reports < MaxReports /\ ReportStatus(n, token, payloadNode)

StatusSpec == Init /\ [][StatusNext]_vars

\* C30 - Status report scope: a report authenticated as node X overwrites
\* the stored and the cached snapshot of X and of no other node, whatever
\* node id the payload carries; a report with an invalid token changes no
\* snapshot and is sent to no subscriber.
StatusReportScope ==
    [][reports' # reports =>
         IF lastReport'.ok
         THEN /\ nodeStatuses'[lastReport'.node].seq = reports'
              /\ statusRows'[lastReport'.node].seq = reports'
              /\ \A x \in NodeIds \ {lastReport'.node} :
                    /\ nodeStatuses'[x] = nodeStatuses[x]
                    /\ statusRows'[x] = statusRows[x]
         ELSE /\ nodeStatuses' = nodeStatuses
              /\ statusRows' = statusRows
              /\ subSent' = subSent]_vars

(***************************************************************************)
(* Retention: Store.CleanupTasks deletes the tasks of the store whose       *)
(* CompletedAt lies more than 24 hours back; how much time has passed       *)
(* since a task's CompletedAt is not part of the state, so a task that has  *)
(* one may be deleted at any time.                                          *)
(***************************************************************************)
CleanupTasks(t) ==
    /\ stored[t].status # "none"
    /\ stored[t].completed
    /\ stored' = [stored EXCEPT ![t] = NoTask]
    /\ UNCHANGED tasks
    /\ UNCHANGED <<storeVars, sessVars, chanVars, dispVars, agentVars, fleetVars, moreVars>>

RetentionNext ==
    \/ TaskNext
    \/ \E t \in TaskIds : CleanupTasks(t)

RetentionInit == Init /\ ~fkEnforced

RetentionSpec == RetentionInit /\ [][RetentionNext]_vars

\* C37 - Completion timestamp marks terminal tasks only: in every reachable
\* state a task, in the service and in the store, has a completion timestamp
\* if and only if its status is success, failed or canceled.
CompletionMarksTerminal ==
    /\ \A t \in TaskIds :
          TaskExists(t) => (tasks[t].completed <=> tasks[t].status \in Terminal)
    /\ \A t \in TaskIds :
          stored[t].status # "none" =>
              (stored[t].completed <=> stored[t].status \in Terminal)

\* C38 - A store failure leaves the task state unchanged: a call of CreateTask
\* or UpdateTaskStatus changes a task of the in-memory map only together with
\* the store, so that where the store write fails the map is as it was before.
StoreFailureLeavesTaskMap ==
    [][\A t \in TaskIds : tasks'[t] # tasks[t] => stored'[t] = tasks'[t]]_vars

(***************************************************************************)
(* TaskService.Register and SubscribeTasks against the node table of the   *)
(* store: NodeAuthenticator.ValidateToken reads the node and compares the  *)
(* token.                                                                  *)
(***************************************************************************)
RegNodes == 2
MaxRegisters == 3
RegStreams == 1

\* Register(ctx, req) with req.NodeId = n and req.Token = token
TaskServiceRegister(n, token) ==
    /\ IF ValidateNodeToken(n, token)
       THEN /\ Registered(n)
            /\ now' = now + 1
            /\ lastSeen' = [lastSeen EXCEPT ![nextObj + 1] = now + 1]
            /\ regResp' = [seq |-> regResp.seq + 1, node |-> n, token |-> token,
                           code |-> "OK"]
       ELSE /\ regResp' = [seq |-> regResp.seq + 1, node |-> n, token |-> token,
                           code |-> "Unauthenticated"]
            /\ UNCHANGED <<sessVars, lastSeen, now>>
    /\ UNCHANGED <<storeVars, taskVars, chanVars, dispVars, agentVars, fleetVars>>
    /\ UNCHANGED <<userVars, subVars, lockVars>>

RegistryNext ==
    \/ ncreated < RegNodes /\ \E name \in {"a"}, host \in {"1.2.3.4"} :
          HandleCreateNodeRequest(name, host)
    \/ regResp.seq < MaxRegisters /\ \E n \in SessNodeIds, token \in KnownTokens :
          TaskServiceRegister(n, token)
    \/ \E h \in 1..RegStreams, n \in SessNodes : n \in nodes /\ SubscribeStart(h, n, TRUE)
    \/ \E h \in Streams : SubscribeLookup(h)
    \/ \E h \in Streams : SubscribeBind(h)
    \/ \E h \in Streams : CtxCancel(h)
    \/ \E h \in Streams : SubscribeWake(h)
    \/ \E h \in Streams : SubscribeUnbind(h)

RegistryInit == Init /\ backend = "memory" /\ ~fkEnforced

RegistrySpec == RegistryInit /\ [][RegistryNext]_vars

\* C34 - Register: a Register with a valid token creates or overwrites the
\* node's session record with a fresh last-seen time and no bound stream and
\* leaves the other records alone; a Register with an invalid token or an
\* unknown node id returns Unauthenticated and leaves the session map, every
\* record and every bound stream unchanged.
RegisterContract ==
    [][regResp'.seq # regResp.seq =>
         LET n == regResp'.node
         IN IF ValidateNodeToken(n, regResp'.token)
            THEN /\ regResp'.code = "OK"
                 /\ sessions'[n] # 0
                 /\ \A m \in SessNodeIds : sessions'[n] # sessions[m]
                 /\ objStream'[sessions'[n]] = 0
                 /\ lastSeen'[sessions'[n]] = now'
                 /\ \A o \in ObjIds : lastSeen[o] < now'
                 /\ \A m \in SessNodeIds \ {n} : sessions'[m] = sessions[m]
                 /\ objStream' = objStream
            ELSE /\ regResp'.code = "Unauthenticated"
                 /\ sessions' = sessions
                 /\ objStream' = objStream
                 /\ lastSeen' = lastSeen
    ]_vars

\* a Register with a wrong token was refused while the node's record had a
\* bound stream, after a Register had overwritten a record
RegisterContractWitness ==
    /\ regResp.code = "Unauthenticated"
    /\ regResp.node \in nodes
    /\ sessions[regResp.node] # 0
    /\ objStream[sessions[regResp.node]] # 0
    /\ nextObj >= 2

(***************************************************************************)
(* NodeService.DeleteNode beside the session registry.                     *)
(***************************************************************************)
\* DeleteNode(nodeID) of the node service: s.store.DeleteNode(nodeID) and
\* nothing else
NodeServiceDeleteNode(n) ==
    /\ n \in nodes
    /\ DeleteNode(n)

DeletionNext ==
    \/ RegistryNext
    \/ \E n \in SessNodeIds : NodeServiceDeleteNode(n)

DeletionSpec == RegistryInit /\ [][DeletionNext]_vars

\* C39 - No session outlives its node: once a node was deleted, the session
\* registry holds no record and no bound stream for it.
NoSessionOutlivesNode ==
    \A n \in SessNodeIds : (n \in issued /\ n \notin nodes) => sessions[n] = 0

(***************************************************************************)
(* UserService.HandleRegister over the MemoryStore: CheckUserExists and    *)
(* CreateUser are two calls of the store, each under the store's lock.     *)
(***************************************************************************)
\* the request arrives; exists, err := s.store.CheckUserExists(req.Username)
HandleRegisterCheck(c, username) ==
    /\ upc[c] = "idle"
    /\ uregs' = uregs + 1
    /\ uname' = [uname EXCEPT ![c] = username]
    /\ IF username \in usernames
       THEN /\ ucode' = [ucode EXCEPT ![c] = 409]
            /\ UNCHANGED upc
       ELSE /\ upc' = [upc EXCEPT ![c] = "create"]
            /\ ucode' = [ucode EXCEPT ![c] = 0]
    /\ UNCHANGED <<users, usernames, lastUserID>>
    /\ UNCHANGED <<storeVars, taskVars, sessVars, chanVars, dispVars, agentVars, fleetVars, regVars, subVars, lockVars>>

\* password.HashPassword; s.store.CreateUser(user); the response
HandleRegisterCreate(c) ==
    /\ upc[c] = "create"
    /\ upc' = [upc EXCEPT ![c] = "idle"]
    /\ IF uname[c] \in usernames
       THEN /\ ucode' = [ucode EXCEPT ![c] = 500]
            /\ UNCHANGED <<users, usernames, lastUserID>>
       ELSE /\ lastUserID' = lastUserID + 1
            /\ users' = users \cup {[id |-> lastUserID + 1, username |-> uname[c]]}
            /\ usernames' = usernames \cup {uname[c]}
            /\ ucode' = [ucode EXCEPT ![c] = 201]
    /\ UNCHANGED <<uname, uregs>>
    /\ UNCHANGED <<storeVars, taskVars, sessVars, chanVars, dispVars, agentVars, fleetVars, regVars, subVars, lockVars>>

UserNext ==
    \/ uregs < MaxUserRequests /\ \E c \in UserConns, username \in Usernames :
          HandleRegisterCheck(c, username)
    \/ \E c \in UserConns : HandleRegisterCreate(c)

UserInit == Init /\ backend = "memory" /\ ~fkEnforced

UserSpec == UserInit /\ [][UserNext]_vars

\* C32 - Username uniqueness: under any interleaving of registration requests
\* there is at most one user per username, and every registration attempt that
\* is answered while its username exists is answered with 409.
UsernameUniqueness ==
    [][/\ \A u, v \in users' : u.username = v.username => u = v
       /\ \A c \in UserConns :
             (/\ \/ upc[c] = "create" /\ upc'[c] = "idle"
                 \/ upc[c] = "idle" /\ upc'[c] = "idle" /\ ucode'[c] # ucode[c]
              /\ uname'[c] \in usernames)
             => ucode'[c] = 409
    ]_vars

(***************************************************************************)
(* Rendering for a fleet in which a record's Endpoints is the empty list:  *)
(* NodeService.UpdateNode stores the caller's record, whose Endpoints need *)
(* not name an endpoint.                                                   *)
(***************************************************************************)
\* UpdateNode(n, config), config being the stored record with Endpoints "[]"
UpdateNodeEndpoints(n) ==
    /\ n \in nodes
    /\ updates' = updates + 1
    /\ lastUpdate' = [node |-> n, token |-> rec[n].token, ok |-> TRUE]
    /\ rec' = [rec EXCEPT ![n].endpoint = NoEndpoints]
    /\ UNCHANGED <<issued, ncreated, resp, rendered, fetches, reportVars>>
    /\ UNCHANGED <<storeVars, taskVars, sessVars, chanVars, dispVars, agentVars, moreVars>>

PlaceholderNext ==
    \/ \E host \in {"1.2.3.4"} :
          /\ ncreated < MeshNodes
          /\ HandleCreateNodeRequest(IF ncreated = 0 THEN "a" ELSE "b", host)
    \/ \E n \in nodes : updates < MaxUpdates /\ UpdateNodeEndpoints(n)
    \/ \E target \in nodes, peers \in ListNodes :
          /\ fetches < MeshFetches
          /\ HandleGetConfig(TRUE, target, rec[target].token, target, peers)

PlaceholderSpec == Init /\ [][PlaceholderNext]_vars

\* the records of a fleet carry pairwise different names
DistinctNames(fleet) ==
    \A a, b \in DOMAIN fleet : fleet[a].name = fleet[b].name => a = b

RECURSIVE InitialFrames(_)
InitialFrames(S) ==
    IF S = {} THEN <<>>
    ELSE LET n == CHOOSE m \in S : \A k \in S : m <= k
         IN <<[kind |-> "initial", snap |-> nodeStatuses[n]]>> \o InitialFrames(S \ {n})

\* validateSubscriber; s.statusSubscribers[req.Token] = append(..., stream)
SubscribeStatusRegister(d, tokenEmpty) ==
    /\ spc[d] = "idle"
    /\ IF tokenEmpty
       THEN /\ spc' = [spc EXCEPT ![d] = "refused"]
            /\ UNCHANGED inList
       ELSE /\ spc' = [spc EXCEPT ![d] = "snapshot"]
            /\ inList' = inList \cup {d}
    /\ UNCHANGED <<sctx, got>>
    /\ UNCHANGED <<storeVars, taskVars, sessVars, chanVars, dispVars, agentVars, fleetVars, regVars, userVars, lockVars>>

\* for _, nodeStatus := range s.nodeStatuses { stream.Send(nodeStatus) }
SubscribeStatusSnapshot(d) ==
    /\ spc[d] = "snapshot"
    /\ spc' = [spc EXCEPT ![d] = "waiting"]
    /\ got' = [got EXCEPT ![d] =
                 got[d] \o InitialFrames({n \in NodeIds : nodeStatuses[n] # NoSnap})]
    /\ UNCHANGED <<inList, sctx>>
    /\ UNCHANGED <<storeVars, taskVars, sessVars, chanVars, dispVars, agentVars, fleetVars, regVars, userVars, lockVars>>

\* the subscriber cancels or its connection breaks
SubscriberCancel(d) ==
    /\ spc[d] \in {"snapshot", "waiting"}
    /\ ~sctx[d]
    /\ sctx' = [sctx EXCEPT ![d] = TRUE]
    /\ UNCHANGED <<spc, inList, got>>
    /\ UNCHANGED <<storeVars, taskVars, sessVars, chanVars, dispVars, agentVars, fleetVars, regVars, userVars, lockVars>>

\* <-stream.Context().Done(); the stream is taken out of the list
SubscribeStatusRemove(d) ==
    /\ spc[d] = "waiting"
    /\ sctx[d]
    /\ spc' = [spc EXCEPT ![d] = "removed"]
    /\ inList' = inList \ {d}
    /\ UNCHANGED <<sctx, got>>
    /\ UNCHANGED <<storeVars, taskVars, sessVars, chanVars, dispVars, agentVars, fleetVars, regVars, userVars, lockVars>>

SubscriptionNext ==
    \/ \E name \in {"a"}, host \in {"1.2.3.4"} :
          ncreated < MeshNodes /\ HandleCreateNodeRequest(name, host)
    \/ \E n \in nodes :
          reports < MaxReports /\ ReportStatus(n, rec[n].token, n)
    \/ \E d \in SubStreams, tokenEmpty \in BOOLEAN : SubscribeStatusRegister(d, tokenEmpty)
    \/ \E d \in SubStreams : SubscribeStatusSnapshot(d)
    \/ \E d \in SubStreams : SubscriberCancel(d)
    \/ \E d \in SubStreams : SubscribeStatusRemove(d)

SubscriptionSpec == Init /\ [][SubscriptionNext]_vars

\* C31 - Status subscription: on every subscriber's stream the snapshots of
\* the nodes known at subscription come first and the reported snapshots
\* after them, and a stream that was removed from the subscriber list after
\* its disconnect is sent nothing more.
StatusSubscriptionOrder ==
    [][\A d \in SubStreams :
          /\ \A i, j \in 1..Len(got'[d]) :
                (i < j /\ got'[d][j].kind = "initial") => got'[d][i].kind = "initial"
          /\ spc[d] = "removed" => got'[d] = got[d]
          /\ (d \in inList /\ ~sctx[d] /\ reports' # reports /\ lastReport'.ok)
                => Len(got'[d]) = Len(got[d]) + 1
    ]_vars

(***************************************************************************)
(* The locks of the task service.  s.nodeMu is a sync.RWMutex: Lock waits  *)
(* until no reader and no writer holds it, and RLock waits while a writer  *)
(* holds it or is waiting for it.  Every nodeState has its own streamLock. *)
(* An operation is at "..._lock" while it waits for s.nodeMu and at        *)
(* "..._stream" while it waits for a streamLock; a Send lasts from the     *)
(* step that starts it to the step in which it returns.  The callers hold  *)
(* valid credentials.                                                      *)
(***************************************************************************)
OtherGroups == <<storeVars, taskVars, chanVars, dispVars, agentVars, fleetVars,
                 regVars, userVars, subVars>>
SessionOthers == <<nodeMu, hpc, hnode, hobj, ctxDone, lastBound>>

\* the operations blocked in s.nodeMu.Lock()
MapWaiters == {p \in Ops : opc[p] \in {"r_lock", "s_lock", "u_lock"}}
\* s.nodeMu.Lock() returns
CanLock == mapWriter = 0 /\ mapReaders = {}
\* s.nodeMu.RLock() returns
CanRLock == mapWriter = 0 /\ MapWaiters = {}

\* the operation goes on to another position
Goto(p, where) ==
    /\ opc' = [opc EXCEPT ![p] = where]
    /\ UNCHANGED <<okind, onode, oobj, ostream>>

\* the operation goes on with the nodeState o of node n in hand
GotoWith(p, where, n, o) ==
    /\ opc' = [opc EXCEPT ![p] = where]
    /\ onode' = [onode EXCEPT ![p] = n]
    /\ oobj' = [oobj EXCEPT ![p] = o]
    /\ UNCHANGED <<okind, ostream>>

\* the call returns
OpReturn(p) ==
    /\ opc' = [opc EXCEPT ![p] = "idle"]
    /\ okind' = [okind EXCEPT ![p] = "none"]
    /\ onode' = [onode EXCEPT ![p] = 0]
    /\ oobj' = [oobj EXCEPT ![p] = 0]
    /\ ostream' = [ostream EXCEPT ![p] = 0]

\* a call of Register, SubscribeTasks, PushTask or BroadcastTask arrives
StartOp(p, kind, n) ==
    /\ opc[p] = "idle"
    /\ okind' = [okind EXCEPT ![p] = kind]
    /\ onode' = [onode EXCEPT ![p] = IF kind = "broadcast" THEN 0 ELSE n]
    /\ opc' = [opc EXCEPT ![p] = CASE kind = "register"  -> "r_lock"
                                   [] kind = "subscribe" -> "s_lock"
                                   [] kind = "push"      -> "p_rlock"
                                   [] kind = "broadcast" -> "b_rlock"]
    /\ IF kind = "subscribe"
       THEN /\ lstreams < LockStreams
            /\ lstreams' = lstreams + 1
            /\ ostream' = [ostream EXCEPT ![p] = lstreams + 1]
       ELSE UNCHANGED <<lstreams, ostream>>
    /\ UNCHANGED <<mapWriter, mapReaders, streamLock, oobj, sending, btodo>>
    /\ UNCHANGED <<sessVars, OtherGroups>>

\* Register: s.nodeMu.Lock(); s.nodes[req.NodeId] = &nodeState{...}; Unlock
RegisterLocked(p) ==
    /\ opc[p] = "r_lock"
    /\ CanLock
    /\ nextObj < MaxSessions
    /\ nextObj' = nextObj + 1
    /\ sessions' = [sessions EXCEPT ![onode[p]] = nextObj + 1]
    /\ OpReturn(p)
    /\ UNCHANGED <<objStream, SessionOthers>>
    /\ UNCHANGED <<mapWriter, mapReaders, streamLock, sending, btodo, lstreams>>
    /\ UNCHANGED OtherGroups

\* SubscribeTasks: s.nodeMu.Lock(); node, exists := s.nodes[req.NodeId]
SubscribeLocked(p) ==
    /\ opc[p] = "s_lock"
    /\ CanLock
    /\ IF sessions[onode[p]] = 0
       THEN /\ OpReturn(p)
            /\ UNCHANGED mapWriter
       ELSE /\ GotoWith(p, "s_stream", onode[p], sessions[onode[p]])
            /\ mapWriter' = p
    /\ UNCHANGED <<mapReaders, streamLock, sending, btodo, lstreams>>
    /\ UNCHANGED <<sessVars, OtherGroups>>

\* node.streamLock.Lock(); node.stream = stream; both locks are released
SubscribeBound(p) ==
    /\ opc[p] = "s_stream"
    /\ streamLock[oobj[p]] = 0
    /\ objStream' = [objStream EXCEPT ![oobj[p]] = ostream[p]]
    /\ mapWriter' = 0
    /\ GotoWith(p, "s_wait", onode[p], 0)
    /\ UNCHANGED <<sessions, nextObj, SessionOthers>>
    /\ UNCHANGED <<mapReaders, streamLock, sending, btodo, lstreams>>
    /\ UNCHANGED OtherGroups

\* <-stream.Context().Done() returns
SubscribeCtxDone(p) ==
    /\ opc[p] = "s_wait"
    /\ Goto(p, "u_lock")
    /\ UNCHANGED <<mapWriter, mapReaders, streamLock, sending, btodo, lstreams>>
    /\ UNCHANGED <<sessVars, OtherGroups>>

\* the cleanup: s.nodeMu.Lock(); node, exists := s.nodes[req.NodeId]
UnbindLocked(p) ==
    /\ opc[p] = "u_lock"
    /\ CanLock
    /\ IF sessions[onode[p]] = 0
       THEN /\ OpReturn(p)
            /\ UNCHANGED mapWriter
       ELSE /\ GotoWith(p, "u_stream", onode[p], sessions[onode[p]])
            /\ mapWriter' = p
    /\ UNCHANGED <<mapReaders, streamLock, sending, btodo, lstreams>>
    /\ UNCHANGED <<sessVars, OtherGroups>>

\* node.streamLock.Lock(); node.stream = nil; both locks are released
Unbound(p) ==
    /\ opc[p] = "u_stream"
    /\ streamLock[oobj[p]] = 0
    /\ objStream' = [objStream EXCEPT ![oobj[p]] = 0]
    /\ mapWriter' = 0
    /\ OpReturn(p)
    /\ UNCHANGED <<sessions, nextObj, SessionOthers>>
    /\ UNCHANGED <<mapReaders, streamLock, sending, btodo, lstreams>>
    /\ UNCHANGED OtherGroups

\* PushTask: s.nodeMu.RLock(); node, exists := s.nodes[...]; s.nodeMu.RUnlock()
PushLooked(p) ==
    /\ opc[p] = "p_rlock"
    /\ CanRLock
    /\ IF sessions[onode[p]] = 0
       THEN OpReturn(p)
       ELSE GotoWith(p, "p_stream", onode[p], sessions[onode[p]])
    /\ UNCHANGED <<mapWriter, mapReaders, streamLock, sending, btodo, lstreams>>
    /\ UNCHANGED <<sessVars, OtherGroups>>

\* PushTask that writes to the stream without taking node.streamLock
PushStreamUnlocked(p) ==
    /\ opc[p] = "p_stream"
    /\ IF objStream[oobj[p]] = 0
       THEN /\ OpReturn(p)
            /\ UNCHANGED sending
       ELSE /\ Goto(p, "p_send")
            /\ sending' = [sending EXCEPT ![p] = objStream[oobj[p]]]
    /\ UNCHANGED <<mapWriter, mapReaders, streamLock, btodo, lstreams>>
    /\ UNCHANGED <<sessVars, OtherGroups>>

\* node.streamLock.Lock(); a nil stream ends the call, otherwise
\* node.stream.Send(pbTask) begins
PushStreamLocked(p) ==
    /\ opc[p] = "p_stream"
    /\ streamLock[oobj[p]] = 0
    /\ IF objStream[oobj[p]] = 0
       THEN /\ OpReturn(p)
            /\ UNCHANGED <<streamLock, sending>>
       ELSE /\ Goto(p, "p_send")
            /\ streamLock' = [streamLock EXCEPT ![oobj[p]] = p]
            /\ sending' = [sending EXCEPT ![p] = objStream[oobj[p]]]
    /\ UNCHANGED <<mapWriter, mapReaders, btodo, lstreams>>
    /\ UNCHANGED <<sessVars, OtherGroups>>

\* PushTask that reads the session map again before it lets go of the
\* stream lock
PushSentUnderMapLock(p) ==
    /\ opc[p] = "p_send"
    /\ CanRLock
    /\ sending' = [sending EXCEPT ![p] = 0]
    /\ streamLock' = [streamLock EXCEPT ![oobj[p]] = 0]
    /\ OpReturn(p)
    /\ UNCHANGED <<mapWriter, mapReaders, btodo, lstreams>>
    /\ UNCHANGED <<sessVars, OtherGroups>>

\* Send returns (with or without an error); the deferred streamLock.Unlock()
PushSent(p) ==
    /\ opc[p] = "p_send"
    /\ sending' = [sending EXCEPT ![p] = 0]
    /\ streamLock' = [streamLock EXCEPT ![oobj[p]] = 0]
    /\ OpReturn(p)
    /\ UNCHANGED <<mapWriter, mapReaders, btodo, lstreams>>
    /\ UNCHANGED <<sessVars, OtherGroups>>

\* BroadcastTask: s.nodeMu.RLock(), held until the function returns
BroadcastLocked(p) ==
    /\ opc[p] = "b_rlock"
    /\ CanRLock
    /\ mapReaders' = mapReaders \cup {p}
    /\ btodo' = [btodo EXCEPT ![p] = {n \in SessNodeIds : sessions[n] # 0}]
    /\ Goto(p, "b_stream")
    /\ UNCHANGED <<mapWriter, streamLock, sending, lstreams>>
    /\ UNCHANGED <<sessVars, OtherGroups>>

\* the next node of the range: node.streamLock.Lock(); a nil stream is
\* skipped, otherwise node.stream.Send(pbTask) begins
BroadcastVisit(p, n) ==
    /\ opc[p] = "b_stream"
    /\ n \in btodo[p]
    /\ streamLock[sessions[n]] = 0
    /\ btodo' = [btodo EXCEPT ![p] = @ \ {n}]
    /\ IF objStream[sessions[n]] = 0
       THEN /\ Goto(p, "b_stream")
            /\ UNCHANGED <<streamLock, sending>>
       ELSE /\ GotoWith(p, "b_send", n, sessions[n])
            /\ streamLock' = [streamLock EXCEPT ![sessions[n]] = p]
            /\ sending' = [sending EXCEPT ![p] = objStream[sessions[n]]]
    /\ UNCHANGED <<mapWriter, mapReaders, lstreams>>
    /\ UNCHANGED <<sessVars, OtherGroups>>

\* Send returns; node.streamLock.Unlock()
BroadcastSent(p) ==
    /\ opc[p] = "b_send"
    /\ sending' = [sending EXCEPT ![p] = 0]
    /\ streamLock' = [streamLock EXCEPT ![oobj[p]] = 0]
    /\ GotoWith(p, "b_stream", 0, 0)
    /\ UNCHANGED <<mapWriter, mapReaders, btodo, lstreams>>
    /\ UNCHANGED <<sessVars, OtherGroups>>

\* the range is over: the deferred s.nodeMu.RUnlock()
BroadcastReturn(p) ==
    /\ opc[p] = "b_stream"
    /\ btodo[p] = {}
    /\ mapReaders' = mapReaders \ {p}
    /\ OpReturn(p)
    /\ UNCHANGED <<mapWriter, streamLock, sending, btodo, lstreams>>
    /\ UNCHANGED <<sessVars, OtherGroups>>

OpKinds == {"register", "subscribe", "push", "broadcast"}

\* the steps the service takes by itself once a call has arrived
LockStep(p) ==
    \/ RegisterLocked(p)
    \/ SubscribeLocked(p)
    \/ SubscribeBound(p)
    \/ UnbindLocked(p)
    \/ Unbound(p)
    \/ PushLooked(p)
    \/ PushStreamLocked(p)
    \/ PushSent(p)
    \/ BroadcastLocked(p)
    \/ \E n \in SessNodeIds : BroadcastVisit(p, n)
    \/ BroadcastSent(p)
    \/ BroadcastReturn(p)

\* the operation slot a new call takes: the lowest free one
FreeSlot(p) == opc[p] = "idle" /\ \A q \in Ops : q < p => opc[q] # "idle"

\* the model has MaxSessions nodeState objects: no more Register calls are
\* let in than there are objects left
RoomFor(kind) ==
    kind = "register" =>
        nextObj + Cardinality({q \in Ops : opc[q] = "r_lock"}) < MaxSessions

\* calls about one node
LockNext ==
    \/ \E p \in Ops, kind \in OpKinds, n \in {AgentNode} :
          FreeSlot(p) /\ RoomFor(kind) /\ StartOp(p, kind, n)
    \/ \E p \in Ops : SubscribeCtxDone(p)
    \/ \E p \in Ops : LockStep(p)

LockInit == Init /\ backend = "memory" /\ ~fkEnforced

LockSpec == LockInit /\ [][LockNext]_vars

\* calls about two nodes
IsolationNext ==
    \/ \E p \in Ops, kind \in OpKinds, n \in SessNodeIds :
          FreeSlot(p) /\ RoomFor(kind) /\ StartOp(p, kind, n)
    \/ \E p \in Ops : SubscribeCtxDone(p)
    \/ \E p \in Ops : LockStep(p)

IsolationSpec == LockInit /\ [][IsolationNext]_vars

\* sync.Mutex and sync.RWMutex hand the lock to a goroutine that keeps
\* waiting for it (starvation mode, writer preference), and every Send returns
LockFairness == \A p \in Ops : SF_vars(LockStep(p))

LockFairSpec == LockSpec /\ LockFairness

(***************************************************************************)
(* Properties of the locks.                                                *)
(***************************************************************************)
HoldsMapLock(p) == mapWriter = p \/ p \in mapReaders

\* p is acquiring or holding a streamLock
AtStreamLock(p) ==
    \/ opc[p] \in {"s_stream", "u_stream", "p_stream", "p_send", "b_send"}
    \/ opc[p] = "b_stream" /\ btodo[p] # {}

\* p cannot take s.nodeMu because of the Send of r: the lock's holder waits
\* for the streamLock r holds, or r holds the read lock and a writer waits
BlockedBehindSend(p, r) ==
    /\ opc[p] \in {"p_rlock", "b_rlock"}
    /\ sending[r] # 0
    /\ \/ /\ mapWriter # 0
          /\ opc[mapWriter] \in {"s_stream", "u_stream"}
          /\ streamLock[oobj[mapWriter]] = r
       \/ r \in mapReaders /\ MapWaiters # {}

\* C33 - Per-session send isolation: a send to node X that is blocked inside
\* the stream write never blocks a send to another node Y, and s.nodeMu is
\* never held by an operation that is acquiring or holding a streamLock.
PerSessionSendIsolation ==
    /\ \A p \in Ops : HoldsMapLock(p) => ~AtStreamLock(p)
    /\ \A p, r \in Ops :
          (okind[p] = "push" /\ onode[r] # onode[p]) => ~BlockedBehindSend(p, r)

\* C35 - Stream write mutual exclusion: at every instant at most one Send is
\* in progress on any given task stream.
StreamWriteExclusion ==
    \A p, q \in Ops : (p # q /\ sending[p] # 0) => sending[p] # sending[q]

\* a PushTask waits for the streamLock of the nodeState on whose stream a
\* Send is in progress, after a Register has replaced a nodeState
StreamWriteExclusionWitness ==
    \E p, q \in Ops :
        /\ sending[p] # 0
        /\ opc[q] = "p_stream"
        /\ oobj[q] = oobj[p]
        /\ nextObj >= 2

\* C40 - Deadlock freedom of the session registry: every Register,
\* SubscribeTasks (bind and unbind), PushTask and BroadcastTask that has
\* arrived gets every lock it waits for and completes (a SubscribeTasks gets
\* as far as waiting for its stream to end), provided every Send returns.
RegistryProgress ==
    \A p \in Ops : (opc[p] \notin {"idle", "s_wait"}) ~> (opc[p] \in {"idle", "s_wait"})

\* an unbind holds s.nodeMu and waits for the streamLock a Send holds, while
\* a third operation waits for s.nodeMu
RegistryProgressWitness ==
    \E p, q, r \in Ops :
        /\ mapWriter = p /\ opc[p] = "u_stream"
        /\ streamLock[oobj[p]] = q /\ sending[q] # 0
        /\ r \notin {p, q}
        /\ opc[r] \in {"r_lock", "s_lock", "p_rlock", "b_rlock"}

====
